---- MODULE Spec2Model ----
(***************************************************************************)
(* Dispatch core of vkworkspace: the router graph (Router.include_router), *)
(* handler matching (EventObserver.trigger, HandlerObject.check), event    *)
(* propagation through the router tree and its middleware chains           *)
(* (Router.propagate_event, ErrorsMiddleware) and Dispatcher.feed_update   *)
(* with its FSM session-timeout bookkeeping.                               *)
(*                                                                         *)
(* A call of trigger / propagate_event / feed_update is one action.  What  *)
(* a filter returns and what a callback does depend on the event and on    *)
(* application code, so they are inputs: the operators below compute the   *)
(* set of all runs of a call, one run per way the probed filters and       *)
(* callbacks can respond, and the action picks one.  A run is the call's   *)
(* outcome together with the trace of every filter, callback and           *)
(* middleware it evaluated, in order.                                      *)
(***************************************************************************)
EXTENDS Integers, Sequences, FiniteSets, TLC

(***************************************************************************)
(* Bounds of the model.                                                    *)
(***************************************************************************)
MaxHandlers == 3      \* handlers registered in total, over all observers
MaxMiddlewares == 1   \* middlewares registered in total
MaxChain == 2         \* application middlewares registered when chains are studied
MaxBulk == 2          \* routers passed to one include_routers call
MaxBatch == 2         \* updates returned by one get_events call
MaxTime == 3          \* the monotonic clock runs from 0 to MaxTime
MaxTimeout == 1       \* session_timeout is None or 1..MaxTimeout
MaxFilters == 3       \* filters of one handler when handlers are studied alone
MaxParams == 2        \* parameters of a callback after the event
MaxObjects == 5       \* dict objects made when aliasing is studied
MaxUpdates == 3       \* update_data calls in a row

(***************************************************************************)
(* Values.                                                                 *)
(***************************************************************************)
None == "None"
UNHANDLED == "UNHANDLED"
Dispatcher == "dp"
Routers == {"dp", "r1", "r2"}
\* Router.observers has ten categories; nine are update categories that are
\* treated alike, "error" is the one feed_update and ErrorsMiddleware use.
Categories == {"message", "error"}
Chats == {"", "c1"}
Users == {"", "u1", "u2"}
FormName == "Form:name"
Fields == {"a"}

NoKey == <<>>
Nothing == <<>>
Some(x) == <<x>>

Return(v) == [kind |-> "return", val |-> v]
Raise(e) == [kind |-> "raise", val |-> e]

\* SkipHandler and CancelHandler are Exception subclasses (bases.py)
SkipHandler == "SkipHandler"
CancelHandler == "CancelHandler"
RuntimeError == "RuntimeError"
\* asyncio.CancelledError derives from BaseException: `except Exception`
\* lets it through
CancelledError == "CancelledError"
IsException(e) == e # CancelledError

VARIABLES
    sub_routers,      \* Router._sub_routers: router -> sequence of routers
    parent_router,    \* Router._parent_router: router -> router or None
    handlers,         \* EventObserver.handlers: router -> category -> number of HandlerObjects
    middlewares,      \* EventObserver.middleware.middlewares: router -> category -> sequence
    storage,          \* MemoryStorage._storage: key -> [state, data]
    fsm_timestamps,   \* Dispatcher._fsm_timestamps: a function whose domain is the stamped keys
    session_timeout,  \* Dispatcher.session_timeout: Nothing or Some(seconds)
    now,              \* time.monotonic()
    running,          \* Dispatcher._running
    pending,          \* updates of the current get_events batch not yet fed
    finished,         \* history: key -> when the last feed_update for it returned
    idle,             \* history: time from that return to the start of the last feed_update
    objects,          \* the dict objects of the program and which of them the application holds
    fsm_strategy,     \* Dispatcher.fsm_strategy
    loop,             \* start_polling, the polling tasks and the event loop's ready queue
    listener,         \* RedisListener, its two loops for one stream, and the stream in Redis
    scheduler,        \* Scheduler._running and the tasks of its jobs
    writers,          \* tasks that call FSMContext.update_data on one key, and the stored data
    last              \* history: the last call made and what it did

vars == <<sub_routers, parent_router, handlers, middlewares, storage,
          fsm_timestamps, session_timeout, now, running, pending, finished,
          idle, objects, fsm_strategy, loop, listener, scheduler, writers, last>>

graphVars == <<sub_routers, parent_router>>
regVars == <<handlers, middlewares>>
fsmVars == <<storage, fsm_timestamps, session_timeout, now, finished, idle>>
pollVars == <<running, pending>>
sideVars == <<listener, scheduler, writers>>
extVars == <<objects, fsm_strategy, loop, sideVars>>
coreVars == <<graphVars, regVars, fsmVars, pollVars, objects, fsm_strategy, loop>>

(***************************************************************************)
(* FSM storage keys and records.                                           *)
(***************************************************************************)
\* StorageKey(bot_id, chat_id, user_id, destiny="default") for the one bot polled
StorageKey(chat_id, user_id) == <<"bot", chat_id, user_id, "default">>
Keys == {StorageKey(c, u) : c \in Chats, u \in Users} \ {StorageKey("", "")}

EmptyData == [f \in {} |-> 0]
\* _StorageRecord(): state None, data {}; the defaultdict creates it on first touch
StorageRecord == [state |-> None, data |-> EmptyData]

\* what the last feed_update saw and did: the key, when it started and
\* returned, the stored state and data and the timestamp it found, whether
\* it cleared the record, the outcome of the dispatch of the event, the
\* exceptions dispatched as "error" events, whether it returned early; for
\* a call on an FSMContext, whether the storage had a record under the key
NoFeed == [key |-> NoKey, start |-> 0, finish |-> 0, state0 |-> None,
           data0 |-> EmptyData, stamp0 |-> Nothing, evicted |-> FALSE,
           main |-> Return(None), errors |-> <<>>, early |-> FALSE,
           known |-> FALSE]

\* FSMStrategy
USER_IN_CHAT == "user_in_chat"
CHAT == "chat"
GLOBAL_USER == "global_user"

\* no dict object made yet
NoObjects == [dicts |-> <<>>, held |-> {}]

\* the bot clients an application may poll
Bots == {"b1", "b2"}

\* no polling task for a bot: a task has the place where its coroutine is
\* suspended, the locals consecutive_errors and delay of _polling, the
\* updates of its batch not yet through feed_update (the first is in
\* flight when pc is "feed_update"), whether cancel() was called on it and
\* the CancelledError is still to be thrown; as history, the batch it
\* received last, the updates of it that entered feed_update and the number
\* of get_events calls it started
NoTask == [pc |-> "none", consecutive_errors |-> 0, delay |-> 0, pending |-> <<>>,
           must_cancel |-> FALSE, batch |-> <<>>, fed |-> <<>>, polls |-> 0]

\* before start_polling is called.  phase is the await start_polling is
\* suspended in; on_startup and on_shutdown are Router._on_startup and
\* Router._on_shutdown (router -> number of callbacks); hook counts the
\* callbacks the running emit_* has completed and pos the bots the running
\* loop over bots is through; signals says the signal handlers are
\* installed; outer is the future of asyncio.gather, finishing the number
\* of tasks it saw end; ready is the event loop's queue of callbacks.
\* History: hooks are the lifecycle callbacks run, closed the bots
\* closed, stopped whether stop() or _stop_signal ran and stopped_in the
\* phase it ran in, cancelled whether start_polling was cancelled, skipped
\* the number
\* of get_events(poll_time=0) calls started, exc the exception that left
\* start_polling.
NoLoop == [phase |-> "new", bots |-> <<>>, skip_updates |-> FALSE,
           handle_signals |-> FALSE, close_bot_on_stop |-> FALSE,
           on_startup |-> [r \in Routers |-> 0], on_shutdown |-> [r \in Routers |-> 0],
           hook |-> 0, pos |-> 0, signals |-> FALSE,
           task |-> [b \in Bots |-> NoTask],
           outer |-> "none", finishing |-> 0, cancel_requested |-> FALSE,
           must_cancel |-> FALSE, ready |-> <<>>,
           hooks |-> <<>>, closed |-> {}, stopped |-> FALSE, stopped_in |-> None,
           cancelled |-> FALSE,
           skipped |-> 0, exc |-> None]

\* The messages of the one Redis stream the model follows.
Messages == {"m1", "m2"}

\* A task of the listener before start(): pc is the await the coroutine is
\* suspended in, batch the messages of the XREADGROUP reply or the entries
\* of the XPENDING reply not yet gone through, the first being the one in
\* hand.
NoStreamTask == [pc |-> "none", batch |-> <<>>]

\* RedisListener before start().  stream holds the messages added to the
\* stream; pel, times_delivered and idle are the consumer group's pending
\* entries list, its delivery counters and the entries idle for retry_after
\* or longer; dead is the dead-letter stream.  History: calls counts the
\* handler calls begun for a message, returned the messages a handler call
\* returned for, acked the messages acknowledged.
NoListener == [running |-> FALSE, max_retries |-> 0, stream |-> <<>>, pel |-> {},
               times_delivered |-> [m \in Messages |-> 0], idle |-> {},
               dead |-> <<>>, calls |-> [m \in Messages |-> 0], returned |-> {},
               acked |-> {},
               read |-> NoStreamTask, pend |-> NoStreamTask]

\* The jobs the model registers with the scheduler.
Jobs == {"j1", "j2"}

\* Scheduler before start(): no task; calls counts the calls of a job's
\* function, failed those that raised.
NoScheduler == [running |-> FALSE,
                job |-> [j \in Jobs |-> [pc |-> "none", run_at_start |-> TRUE,
                                         calls |-> 0, failed |-> 0]]]

\* The tasks that call update_data on the one key the model follows.
Writers == {"w1", "w2", "w3"}

\* The storage backend, the stored data of the key, empty, and the tasks
\* before their calls:
\* current is the dict get_data returned to the task.
NoWriters == [storage |-> "memory", data |-> EmptyData,
              task |-> [w \in Writers |-> [pc |-> "none", current |-> EmptyData]]]

SideInit ==
    /\ listener = NoListener
    /\ scheduler = NoScheduler
    /\ writers = NoWriters

NoCall == [op |-> "none", r |-> Dispatcher, arg |-> <<>>, out |-> Return(None),
           tr |-> <<>>, fsm |-> NoFeed]

(***************************************************************************)
(* Router graph: Router.include_router, Router.include_routers.            *)
(***************************************************************************)
\* The graph after parent.include_router(child) got past its check.
Attach(graph, parent, child) ==
    [parent_router |-> [graph.parent_router EXCEPT ![child] = parent],
     sub_routers |-> [graph.sub_routers EXCEPT ![parent] = Append(@, child)]]

\* include_router appending to _sub_routers before it checks the parent
IncludeOneAppendsFirst(graph, parent, child) ==
    IF graph.parent_router[child] # None
    THEN [graph |-> [graph EXCEPT !.sub_routers[parent] = Append(@, child)],
          out |-> Raise(RuntimeError)]
    ELSE [graph |-> Attach(graph, parent, child), out |-> Return(None)]

\* include_router(router): raises RuntimeError if router._parent_router is not None
IncludeOne(graph, parent, child) ==
    IF graph.parent_router[child] # None
    THEN [graph |-> graph, out |-> Raise(RuntimeError)]
    ELSE [graph |-> Attach(graph, parent, child), out |-> Return(None)]

RECURSIVE IncludeAll(_, _, _)
\* include_routers(*routers): include_router on each in turn; the first raise
\* ends the loop and leaves the earlier ones attached
IncludeAll(graph, parent, children) ==
    IF children = <<>> THEN [graph |-> graph, out |-> Return(None)]
    ELSE LET one == IncludeOne(graph, parent, Head(children))
         IN  IF one.out.kind = "raise" THEN one
             ELSE IncludeAll(one.graph, parent, Tail(children))

Graph == [parent_router |-> parent_router, sub_routers |-> sub_routers]

IncludeRouter(parent, child) ==
    LET res == IncludeOne(Graph, parent, child)
    IN  /\ parent_router' = res.graph.parent_router
        /\ sub_routers' = res.graph.sub_routers
        /\ last' = [NoCall EXCEPT !.op = "include_router", !.r = parent,
                                  !.arg = <<child>>, !.out = res.out]
        /\ UNCHANGED <<extVars, regVars, fsmVars, pollVars>>

IncludeRouters(parent, children) ==
    LET res == IncludeAll(Graph, parent, children)
    IN  /\ parent_router' = res.graph.parent_router
        /\ sub_routers' = res.graph.sub_routers
        /\ last' = [NoCall EXCEPT !.op = "include_routers", !.r = parent,
                                  !.arg = children, !.out = res.out]
        /\ UNCHANGED <<extVars, regVars, fsmVars, pollVars>>

BulkArgs == UNION {[1..n -> Routers] : n \in 0..MaxBulk}

\* Router.__init__ / Dispatcher.__init__(session_timeout=timeout)
ConstructedWith(timeout, strategy) ==
    /\ sub_routers = [r \in Routers |-> <<>>]
    /\ parent_router = [r \in Routers |-> None]
    /\ handlers = [r \in Routers |-> [c \in Categories |-> 0]]
    /\ middlewares = [r \in Routers |-> [c \in Categories |-> <<>>]]
    /\ storage = [k \in Keys |-> StorageRecord]
    /\ fsm_timestamps = [k \in {} |-> 0]
    /\ session_timeout = timeout
    /\ now = 0
    /\ running = FALSE
    /\ pending = <<>>
    /\ finished = [k \in Keys |-> Nothing]
    /\ idle = Nothing
    /\ objects = NoObjects
    /\ fsm_strategy = strategy
    /\ loop = NoLoop
    /\ SideInit
    /\ last = NoCall

\* Dispatcher(session_timeout=timeout): fsm_strategy defaults to "user_in_chat"
Constructed(timeout) == ConstructedWith(timeout, USER_IN_CHAT)

\* Dispatcher(): session_timeout defaults to None
Init == Constructed(Nothing)

NextRouter ==
    \/ \E p \in Routers, c \in Routers : IncludeRouter(p, c)
    \/ \E p \in Routers, cs \in BulkArgs : IncludeRouters(p, cs)

\* Any sequence of include_router / include_routers calls on the routers.
SpecRouter == Init /\ [][NextRouter]_vars

(***************************************************************************)
(* Shape of the router graph.                                              *)
(***************************************************************************)
Children(r) == {sub_routers[r][i] : i \in 1..Len(sub_routers[r])}

RECURSIVE DescendantsWithin(_, _)
\* the routers reached from r in at most n parent-to-child steps (n >= 1)
DescendantsWithin(r, n) ==
    IF n = 0 THEN {}
    ELSE Children(r) \cup UNION {DescendantsWithin(c, n - 1) : c \in Children(r)}

Descendants(r) == DescendantsWithin(r, Cardinality(Routers))

Occurrences(r) ==
    {<<p, i>> \in Routers \X (1..Cardinality(Routers)) :
        i <= Len(sub_routers[p]) /\ sub_routers[p][i] = r}

\* C10: after any sequence of include_router / include_routers calls every
\* router appears in at most one child list and at most once, and no router
\* is its own ancestor (no router is attached to itself or to a descendant).
C10_NoDiamondNoCycle ==
    /\ \A r \in Routers : Cardinality(Occurrences(r)) <= 1
    /\ \A r \in Routers : r \notin Descendants(r)

(***************************************************************************)
(* HandlerObject.check over the results its filters return.                *)
(***************************************************************************)
\* What one filter returns for the event: False, True, None, another falsy
\* value (0, ""), another truthy value, a mapping with entries inj, or an
\* exception.
FilterResult(kind, inj) == [kind |-> kind, inj |-> inj, args |-> <<>>]
FFalse == FilterResult("False", {})
FTrue == FilterResult("True", {})
FRaise == FilterResult("Raise", {})
\* a filter callback that returns None, a falsy value that is neither False
\* nor None nor a mapping (0, ""), a truthy value that is not True (1, "x")
FNone == FilterResult("None", {})
FFalsy == FilterResult("Falsy", {})
FTruthy == FilterResult("Truthy", {})
\* a filter that returns a mapping: entries is a set of <<name, value>> pairs
FDict(entries) == FilterResult("Dict", entries)
\* a filter that reads its kwargs: True if all the names are among them
FNeeds(names) == FilterResult("Needs", names)
\* BaseFilter.__invert__, __and__, __or__
Inverted(f) == [kind |-> "Not", inj |-> {}, args |-> <<f>>]
AndFilter(f, g) == [kind |-> "And", inj |-> {}, args |-> <<f, g>>]
OrFilter(f, g) == [kind |-> "Or", inj |-> {}, args |-> <<f, g>>]

Kwargs(current_state, inj) == [current_state |-> current_state, inj |-> inj]
\* the names of the kwargs a filter is called with
Names(kwargs) == {"current_state"} \cup {e[1] : e \in kwargs.inj}
\* dict.update(entries)
DictUpdate(d, entries) ==
    {e \in d : \A x \in entries : x[1] # e[1]} \cup entries

\* bool(result) of a filter result
Truth(result) ==
    \/ result.kind \in {"True", "Truthy"}
    \/ result.kind = "Dict" /\ result.inj # {}

RECURSIVE Resolve(_, _)
\* await f(event, **kwargs): what filter f returns (or that it raises) when
\* called with kwargs; the combinators call their operands with the same
\* kwargs and return a bool
Resolve(f, kwargs) ==
    CASE f.kind = "Needs" -> IF f.inj \subseteq Names(kwargs) THEN FTrue ELSE FFalse
      [] f.kind = "Not" ->
            LET x == Resolve(f.args[1], kwargs)
            IN  IF x.kind = "Raise" THEN x ELSE IF Truth(x) THEN FFalse ELSE FTrue
      [] f.kind = "And" ->
            LET x == Resolve(f.args[1], kwargs)
            IN  IF x.kind = "Raise" THEN x
                ELSE IF ~Truth(x) THEN FFalse
                ELSE LET y == Resolve(f.args[2], kwargs)
                     IN  IF y.kind = "Raise" THEN y
                         ELSE IF Truth(y) THEN FTrue ELSE FFalse
      [] f.kind = "Or" ->
            LET x == Resolve(f.args[1], kwargs)
            IN  IF x.kind = "Raise" THEN x
                ELSE IF Truth(x) THEN FTrue
                ELSE LET y == Resolve(f.args[2], kwargs)
                     IN  IF y.kind = "Raise" THEN y
                         ELSE IF Truth(y) THEN FTrue ELSE FFalse
      [] OTHER -> f

RECURSIVE CheckFrom(_, _, _)
\* the loop of HandlerObject.check from filter j on; n counts the filters
\* evaluated
CheckFrom(filters, j, kwargs) ==
    IF j > Len(filters) THEN [res |-> "match", kwargs |-> kwargs, n |-> Len(filters)]
    ELSE LET result == Resolve(filters[j], kwargs)
         IN  CASE result.kind = "Raise" ->
                    [res |-> "raise", kwargs |-> kwargs, n |-> j]
               [] result.kind = "False" ->
                    [res |-> "nomatch", kwargs |-> kwargs, n |-> j]
               [] result.kind = "Dict" ->
                    CheckFrom(filters, j + 1,
                              [kwargs EXCEPT !.inj = DictUpdate(@, result.inj)])
               [] result.kind = "Falsy" ->
                    [res |-> "nomatch", kwargs |-> kwargs, n |-> j]
               \* True, None and any other truthy value
               [] OTHER -> CheckFrom(filters, j + 1, kwargs)

\* HandlerObject.check(event, kwargs): no filters is a match
HandlerCheck(filters, kwargs) == CheckFrom(filters, 1, kwargs)

(***************************************************************************)
(* Runs.  A run is [out, tr]: the outcome (a returned value or a raised    *)
(* exception) and the trace of trace events, oldest first.  B gives the    *)
(* behaviours the application code may show: B[category] for the handlers  *)
(* of a category, B.mw for an application middleware.                      *)
(***************************************************************************)
Event(op, r, cat, i, j, ev, kwargs, res, eff) ==
    [op |-> op, r |-> r, cat |-> cat, i |-> i, j |-> j, ev |-> ev,
     kwargs |-> kwargs, res |-> res, eff |-> eff]

Run(out, tr) == [out |-> out, tr |-> tr]

\* the runs of S, each after the events of prefix
After(prefix, S) == {Run(x.out, prefix \o x.tr) : x \in S}

\* the exception a callback of this category raises when it fails
ErrorOf(cat) == IF cat = "error" THEN "ErrorInErrorHandler" ELSE "Error"
FilterError == "FilterError"
MiddlewareError == "MiddlewareError"

\* the events of the n filters HandlerObject.check evaluated: filter j is
\* called with the kwargs its predecessors left; the event keeps what the
\* filter returned and the entries check merges into the kwargs for it
FilterEvents(r, cat, i, ev, filters, kwargs, n) ==
    [j \in 1..n |->
        LET before == CheckFrom(SubSeq(filters, 1, j - 1), 1, kwargs).kwargs
            result == Resolve(filters[j], before)
        IN  Event("filter", r, cat, i, j, ev, before, result.kind,
                  IF result.kind = "Dict" THEN result.inj ELSE {})]

\* Probe with the check's verdict ignored: the callback runs also when a
\* filter rejected the event.
ProbeCallsUnmatched(r, cat, i, ev, kwargs, b) ==
    LET chk == HandlerCheck(b.filters, kwargs)
        ftr == FilterEvents(r, cat, i, ev, b.filters, kwargs, chk.n)
        call == <<Event("call", r, cat, i, 0, ev, chk.kwargs, b.cb, b.eff)>>
    IN  CASE chk.res = "raise" -> [then |-> "out", out |-> Raise(FilterError), tr |-> ftr]
          [] b.cb = SkipHandler ->
                [then |-> "next", out |-> Return(UNHANDLED), tr |-> ftr \o call]
          [] b.cb = CancelHandler ->
                [then |-> "stop", out |-> Return(UNHANDLED), tr |-> ftr \o call]
          [] b.cb = "Error" ->
                [then |-> "out", out |-> Raise(ErrorOf(cat)), tr |-> ftr \o call]
          [] b.cb = CancelledError ->
                [then |-> "out", out |-> Raise(CancelledError), tr |-> ftr \o call]
          [] OTHER -> [then |-> "out", out |-> Return(b.cb), tr |-> ftr \o call]

\* Probe without the `except SkipHandler` clause: the signal leaves trigger
\* like any other exception.
ProbeSkipEscapes(r, cat, i, ev, kwargs, b) ==
    LET chk == HandlerCheck(b.filters, kwargs)
        ftr == FilterEvents(r, cat, i, ev, b.filters, kwargs, chk.n)
        call == <<Event("call", r, cat, i, 0, ev, chk.kwargs, b.cb, b.eff)>>
    IN  CASE chk.res = "raise" -> [then |-> "out", out |-> Raise(FilterError), tr |-> ftr]
          [] chk.res = "nomatch" -> [then |-> "next", out |-> Return(UNHANDLED), tr |-> ftr]
          [] b.cb = SkipHandler ->
                [then |-> "out", out |-> Raise(SkipHandler), tr |-> ftr \o call]
          [] b.cb = CancelHandler ->
                [then |-> "stop", out |-> Return(UNHANDLED), tr |-> ftr \o call]
          [] b.cb = "Error" ->
                [then |-> "out", out |-> Raise(ErrorOf(cat)), tr |-> ftr \o call]
          [] b.cb = CancelledError ->
                [then |-> "out", out |-> Raise(CancelledError), tr |-> ftr \o call]
          [] OTHER -> [then |-> "out", out |-> Return(b.cb), tr |-> ftr \o call]

\* Probe with CancelHandler caught like SkipHandler: the loop goes on.
ProbeCancelAsSkip(r, cat, i, ev, kwargs, b) ==
    LET chk == HandlerCheck(b.filters, kwargs)
        ftr == FilterEvents(r, cat, i, ev, b.filters, kwargs, chk.n)
        call == <<Event("call", r, cat, i, 0, ev, chk.kwargs, b.cb, b.eff)>>
    IN  CASE chk.res = "raise" -> [then |-> "out", out |-> Raise(FilterError), tr |-> ftr]
          [] chk.res = "nomatch" -> [then |-> "next", out |-> Return(UNHANDLED), tr |-> ftr]
          [] b.cb \in {SkipHandler, CancelHandler} ->
                [then |-> "next", out |-> Return(UNHANDLED), tr |-> ftr \o call]
          [] b.cb = "Error" ->
                [then |-> "out", out |-> Raise(ErrorOf(cat)), tr |-> ftr \o call]
          [] b.cb = CancelledError ->
                [then |-> "out", out |-> Raise(CancelledError), tr |-> ftr \o call]
          [] OTHER -> [then |-> "out", out |-> Return(b.cb), tr |-> ftr \o call]

\* One handler probed by trigger: check, then call on a match.  "next" goes
\* on to the following handler, "stop" ends the loop without a result.
Probe(r, cat, i, ev, kwargs, b) ==
    LET chk == HandlerCheck(b.filters, kwargs)
        ftr == FilterEvents(r, cat, i, ev, b.filters, kwargs, chk.n)
        call == <<Event("call", r, cat, i, 0, ev, chk.kwargs, b.cb, b.eff)>>
    IN  CASE chk.res = "raise" -> [then |-> "out", out |-> Raise(FilterError), tr |-> ftr]
          [] chk.res = "nomatch" -> [then |-> "next", out |-> Return(UNHANDLED), tr |-> ftr]
          [] b.cb = SkipHandler ->
                [then |-> "next", out |-> Return(UNHANDLED), tr |-> ftr \o call]
          [] b.cb = CancelHandler ->
                [then |-> "stop", out |-> Return(UNHANDLED), tr |-> ftr \o call]
          [] b.cb = "Error" ->
                [then |-> "out", out |-> Raise(ErrorOf(cat)), tr |-> ftr \o call]
          [] b.cb = CancelledError ->
                [then |-> "out", out |-> Raise(CancelledError), tr |-> ftr \o call]
          [] OTHER -> [then |-> "out", out |-> Return(b.cb), tr |-> ftr \o call]

RECURSIVE TriggerFrom(_, _, _, _, _, _)
\* trigger without `kwargs_copy = dict(kwargs)`: the next handler is checked
\* with the dict the filters of this one updated
TriggerFromSharedKwargs(r, cat, i, ev, kwargs, B) ==
    IF i > handlers[r][cat] THEN {Run(Return(UNHANDLED), <<>>)}
    ELSE UNION {
            LET p == Probe(r, cat, i, ev, kwargs, b)
            IN  IF p.then = "next"
                THEN After(p.tr, TriggerFrom(r, cat, i + 1, ev,
                                             HandlerCheck(b.filters, kwargs).kwargs, B))
                ELSE {Run(p.out, p.tr)}
            : b \in B[cat]}

\* EventObserver.trigger: the for loop from handler i on
TriggerFrom(r, cat, i, ev, kwargs, B) ==
    IF i > handlers[r][cat] THEN {Run(Return(UNHANDLED), <<>>)}
    ELSE UNION {
            LET p == Probe(r, cat, i, ev, kwargs, b)
            IN  IF p.then = "next"
                THEN After(p.tr, TriggerFrom(r, cat, i + 1, ev, kwargs, B))
                ELSE {Run(p.out, p.tr)}
            : b \in B[cat]}

Trigger(r, cat, ev, kwargs, B) == TriggerFrom(r, cat, 1, ev, kwargs, B)

RECURSIVE PropagateEvent(_, _, _, _, _)
RECURSIVE Wrapped(_, _, _, _, _, _)
RECURSIVE SubRoutersFrom(_, _, _, _, _, _)
RECURSIVE ProcessFrom(_, _, _, _, _, _)

\* the loop over sub_routers testing the result for truth: a sub-router that
\* returned None does not end the loop
SubRoutersFromTruthy(r, cat, c, ev, data, B) ==
    IF c > Len(sub_routers[r]) THEN {Run(Return(UNHANDLED), <<>>)}
    ELSE UNION {
            IF x.out.kind = "raise" \/ x.out.val \notin {UNHANDLED, None} THEN {x}
            ELSE After(x.tr, SubRoutersFrom(r, cat, c + 1, ev, data, B))
            : x \in PropagateEvent(sub_routers[r][c], cat, ev, data, B)}

\* Router.propagate_event._inner: the for loop over sub_routers from the
\* c-th on
SubRoutersFrom(r, cat, c, ev, data, B) ==
    IF c > Len(sub_routers[r]) THEN {Run(Return(UNHANDLED), <<>>)}
    ELSE UNION {
            IF x.out # Return(UNHANDLED) THEN {x}
            ELSE After(x.tr, SubRoutersFrom(r, cat, c + 1, ev, data, B))
            : x \in PropagateEvent(sub_routers[r][c], cat, ev, data, B)}

\* _inner testing the result for truth (`if result:`) instead of identity
\* with UNHANDLED: a handler that returned None counts as unhandled.
InnerTruthy(r, cat, ev, data, B) ==
    UNION {
        IF x.out.kind = "raise" \/ x.out.val \notin {UNHANDLED, None} THEN {x}
        ELSE After(x.tr, SubRoutersFrom(r, cat, 1, ev, data, B))
        : x \in Trigger(r, cat, ev, data, B)}

\* Router.propagate_event._inner
Inner(r, cat, ev, data, B) ==
    UNION {
        IF x.out # Return(UNHANDLED) THEN {x}
        ELSE After(x.tr, SubRoutersFrom(r, cat, 1, ev, data, B))
        : x \in Trigger(r, cat, ev, data, B)}

\* ErrorsMiddleware that returns what the "error" propagation returned,
\* UNHANDLED included, and never raises the exception again
ErrorsAroundSwallows(r, cat, ev, data, B, S) ==
    UNION {
        IF \/ x.out.kind = "return"
           \/ x.out.val \in {SkipHandler, CancelHandler}
           \/ ~IsException(x.out.val)
        THEN {x}
        ELSE {Run(y.out, x.tr \o y.tr)
              : y \in PropagateEvent(r, "error", x.out.val, data, B)}
        : x \in S}

\* ErrorsMiddleware.__call__ of router r around the runs S of `handler`
ErrorsAround(r, cat, ev, data, B, S) ==
    UNION {
        IF \/ x.out.kind = "return"
           \/ x.out.val \in {SkipHandler, CancelHandler}
           \/ ~IsException(x.out.val)
        THEN {x}
        ELSE {IF y.out # Return(UNHANDLED)
              THEN Run(y.out, x.tr \o y.tr)
              ELSE Run(x.out, x.tr \o y.tr)
              : y \in PropagateEvent(r, "error", x.out.val, data, B)}
        : x \in S}

\* ErrorsMiddleware.__call__ as the j-th middleware of r's observer
ErrorsMiddleware(r, cat, j, ev, data, B) ==
    ErrorsAround(r, cat, ev, data, B, Wrapped(r, cat, j + 1, ev, data, B))

\* what an application middleware returns when it does not call `handler`
ShortValue(m) ==
    CASE m = "short_none" -> None
      [] m = "short_unhandled" -> UNHANDLED
      [] OTHER -> "M"

\* An application middleware (BaseMiddleware.__call__) as the j-th of r's
\* observer, around the runs S of `handler`: it awaits `handler` and hands
\* its outcome on, returns without calling it, or raises.
UserAround(r, cat, j, ev, data, B, S) ==
    LET enter(m) == <<Event("enter", r, cat, j, 0, ev, data, m, "keep")>>
        exit == <<Event("exit", r, cat, j, 0, ev, data, "", "keep")>>
    IN  UNION {
            CASE m = "raise" -> {Run(Raise(MiddlewareError), enter(m))}
              [] m = "next" -> {Run(x.out, enter(m) \o x.tr \o exit) : x \in S}
              [] OTHER -> {Run(Return(ShortValue(m)), enter(m))}
            : m \in B.mw}

UserMiddleware(r, cat, j, ev, data, B) ==
    UserAround(r, cat, j, ev, data, B, Wrapped(r, cat, j + 1, ev, data, B))

\* `wrapped` built without reversed(): the middleware registered last is
\* the outermost
WrappedForward(r, cat, j, ev, data, B) ==
    LET n == Len(middlewares[r][cat])
    IN  IF j > n THEN Inner(r, cat, ev, data, B)
        ELSE IF middlewares[r][cat][n + 1 - j] = "errors"
             THEN ErrorsAround(r, cat, ev, data, B, Wrapped(r, cat, j + 1, ev, data, B))
             ELSE UserAround(r, cat, n + 1 - j, ev, data, B,
                             Wrapped(r, cat, j + 1, ev, data, B))

\* Router.propagate_event: `wrapped` from the j-th middleware inwards
Wrapped(r, cat, j, ev, data, B) ==
    IF j > Len(middlewares[r][cat]) THEN Inner(r, cat, ev, data, B)
    ELSE IF middlewares[r][cat][j] = "errors"
         THEN ErrorsMiddleware(r, cat, j, ev, data, B)
         ELSE UserMiddleware(r, cat, j, ev, data, B)

\* propagate_event with the middlewares around trigger only: the loop over
\* the sub-routers runs outside the chain
PropagateEventWrapsTrigger(r, cat, ev, kwargs, B) ==
    After(<<Event("propagate", r, cat, 0, 0, ev, kwargs, "", "keep")>>,
          UNION {IF x.out # Return(UNHANDLED) THEN {x}
                 ELSE After(x.tr, SubRoutersFrom(r, cat, 1, ev, kwargs, B))
                 : x \in ProcessFrom(r, cat, 1, ev, kwargs, B)})

\* Router.propagate_event(update_type, event, **kwargs); every category of
\* the model has an observer
PropagateEvent(r, cat, ev, kwargs, B) ==
    After(<<Event("propagate", r, cat, 0, 0, ev, kwargs, "", "keep")>>,
          Wrapped(r, cat, 1, ev, kwargs, B))

\* EventObserver.propagate: `wrapped` from the j-th middleware inwards; the
\* innermost call is _process, which awaits trigger
ProcessFrom(r, cat, j, ev, data, B) ==
    IF j > Len(middlewares[r][cat]) THEN Trigger(r, cat, ev, data, B)
    ELSE IF middlewares[r][cat][j] = "errors"
         THEN ErrorsAround(r, cat, ev, data, B,
                           ProcessFrom(r, cat, j + 1, ev, data, B))
         ELSE UserAround(r, cat, j, ev, data, B,
                         ProcessFrom(r, cat, j + 1, ev, data, B))

\* EventObserver.propagate(event, **kwargs)
ObserverPropagate(r, cat, ev, kwargs, B) == ProcessFrom(r, cat, 1, ev, kwargs, B)

(***************************************************************************)
(* FSMContext over MemoryStorage, on one record.                           *)
(***************************************************************************)
\* MemoryStorage.set_state
SetState(rec, state) == [rec EXCEPT !.state = state]
\* MemoryStorage.set_data stores a copy of data
SetData(rec, data) == [rec EXCEPT !.data = data]
\* update_data storing its kwargs in place of the data
UpdateDataReplaces(rec, kwargs) == SetData(rec, kwargs)
\* FSMContext.update_data(**kwargs): get_data, update, set_data
UpdateData(rec, kwargs) ==
    SetData(rec, [f \in DOMAIN rec.data \cup DOMAIN kwargs |->
                    IF f \in DOMAIN kwargs THEN kwargs[f] ELSE rec.data[f]])
\* clear() without its set_data({})
ClearStateOnly(rec) == SetState(rec, None)
\* FSMContext.clear(): set_state(None), then set_data({})
Clear(rec) == SetData(SetState(rec, None), EmptyData)

\* What a callback does with its `state` argument before it returns or raises.
Effect(rec, eff) ==
    CASE eff = "set_state" -> SetState(rec, FormName)
      [] eff = "clear" -> Clear(rec)
      [] eff = "update_data" -> UpdateData(rec, [f \in Fields |-> 1])
      [] OTHER -> rec

RECURSIVE ApplyEffects(_, _)
\* the record after the callbacks of a trace ran, in order
ApplyEffects(tr, rec) ==
    IF tr = <<>> THEN rec
    ELSE ApplyEffects(Tail(tr),
                      IF Head(tr).op = "call" THEN Effect(rec, Head(tr).eff) ELSE rec)

Drop(f, k) == [x \in DOMAIN f \ {k} |-> f[x]]
Put(f, k, v) == [x \in DOMAIN f \cup {k} |-> IF x = k THEN v ELSE f[x]]

(***************************************************************************)
(* Dispatcher.feed_update.                                                 *)
(***************************************************************************)
\* An update: the wire-level type tag, whether its payload validates, and
\* the chat and sender ids of the event ("" when absent).
Update(type, valid, chat, user) ==
    [type |-> type, valid |-> valid, chat |-> chat, user |-> user]

\* feed_update: the key of the event, None when it has neither chat nor sender
KeyOf(u) == IF u.chat = "" /\ u.user = "" THEN NoKey ELSE StorageKey(u.chat, u.user)

\* the session-timeout test with >= for >
ExpiredAtTimeout(key, current_state) ==
    /\ current_state # None
    /\ session_timeout # Nothing
    /\ key \in DOMAIN fsm_timestamps
    /\ now - fsm_timestamps[key] >= session_timeout[1]

\* the session-timeout test without `current_state is not None`
ExpiredWithoutState(key, current_state) ==
    /\ session_timeout # Nothing
    /\ key \in DOMAIN fsm_timestamps
    /\ now - fsm_timestamps[key] > session_timeout[1]

\* feed_update: the session-timeout test made before dispatch
Expired(key, current_state) ==
    /\ current_state # None
    /\ session_timeout # Nothing
    /\ key \in DOMAIN fsm_timestamps
    /\ now - fsm_timestamps[key] > session_timeout[1]

\* the try block without the inner try/except: an exception of the "error"
\* dispatch leaves feed_update
DispatchRunsErrorEscapes(extra, B) ==
    UNION {
        IF x.out.kind = "return"
        THEN {[out |-> x.out, tr |-> x.tr, main |-> x.out,
               errors |-> <<>>, early |-> FALSE]}
        ELSE IF ~IsException(x.out.val)
        THEN {[out |-> x.out, tr |-> x.tr, main |-> x.out,
               errors |-> <<>>, early |-> TRUE]}
        ELSE {[out |-> y.out, tr |-> x.tr \o y.tr, main |-> x.out,
               errors |-> <<x.out.val>>, early |-> y.out.kind = "raise"]
              : y \in PropagateEvent(Dispatcher, "error", x.out.val, extra, B)}
        : x \in PropagateEvent(Dispatcher, "message", "update", extra, B)}

\* feed_update: the try block.  A run of the dispatch of the event and, when
\* that raised an Exception, of the "error" dispatch of the exception; what
\* is not an Exception leaves feed_update from either dispatch.  `early`
\* says that the code after the try block is not reached: the
\* `return UNHANDLED` of the inner except clause, or an escape.
DispatchRuns(extra, B) ==
    UNION {
        IF x.out.kind = "return"
        THEN {[out |-> x.out, tr |-> x.tr, main |-> x.out,
               errors |-> <<>>, early |-> FALSE]}
        ELSE IF ~IsException(x.out.val)
        THEN {[out |-> x.out, tr |-> x.tr, main |-> x.out,
               errors |-> <<>>, early |-> TRUE]}
        ELSE {IF y.out.kind = "return"
              THEN [out |-> y.out, tr |-> x.tr \o y.tr, main |-> x.out,
                    errors |-> <<x.out.val>>, early |-> FALSE]
              ELSE IF ~IsException(y.out.val)
              THEN [out |-> y.out, tr |-> x.tr \o y.tr, main |-> x.out,
                    errors |-> <<x.out.val>>, early |-> TRUE]
              ELSE [out |-> Return(UNHANDLED), tr |-> x.tr \o y.tr, main |-> x.out,
                    errors |-> <<x.out.val>>, early |-> TRUE]
              : y \in PropagateEvent(Dispatcher, "error", x.out.val, extra, B)}
        : x \in PropagateEvent(Dispatcher, "message", "update", extra, B)}

\* the bookkeeping without the `elif key in self._fsm_timestamps` branch
StampedNeverDropped(stamps, key, new_state, t) ==
    IF key = NoKey \/ session_timeout = Nothing THEN stamps
    ELSE IF new_state # None THEN Put(stamps, key, t)
         ELSE stamps

\* feed_update: the timestamp bookkeeping after the try block, at time t
Stamped(stamps, key, new_state, t) ==
    IF key = NoKey \/ session_timeout = Nothing THEN stamps
    ELSE IF new_state # None THEN Put(stamps, key, t)
         ELSE Drop(stamps, key)

\* feed_update(bot, update), its callbacks taking dt units of time: the
\* runs, each with the storage and the timestamps it leaves
FeedUpdate(u, dt, B) ==
    LET unchanged == [storage |-> storage, fsm_timestamps |-> fsm_timestamps,
                      now |-> now, tr |-> <<>>, fsm |-> NoFeed]
    IN  IF u.type = "unknown"
        THEN \* _resolve_event gives (None, None, {}): return UNHANDLED
             {unchanged @@ [out |-> Return(UNHANDLED)]}
        ELSE IF ~u.valid
        THEN \* model_validate(payload) raises out of feed_update
             {unchanged @@ [out |-> Raise("ValidationError")]}
        ELSE LET key == KeyOf(u)
                 state0 == IF key = NoKey THEN None ELSE storage[key].state
                 expired == key # NoKey /\ Expired(key, state0)
                 rec1 == IF expired THEN Clear(storage[key])
                         ELSE IF key = NoKey THEN StorageRecord ELSE storage[key]
                 stamps1 == IF expired THEN Drop(fsm_timestamps, key) ELSE fsm_timestamps
                 current_state == IF expired THEN None ELSE state0
                 extra == Kwargs(current_state, {})
             IN  {LET rec2 == ApplyEffects(x.tr, rec1)
                  IN  [out |-> x.out, tr |-> x.tr,
                       storage |-> IF key = NoKey THEN storage
                                   ELSE [storage EXCEPT ![key] = rec2],
                       fsm_timestamps |->
                            IF x.early THEN stamps1
                            ELSE Stamped(stamps1, key, rec2.state, now + dt),
                       now |-> now + dt,
                       fsm |-> [key |-> key, start |-> now, finish |-> now + dt,
                                state0 |-> state0,
                                data0 |-> IF key = NoKey THEN EmptyData
                                          ELSE storage[key].data,
                                stamp0 |-> IF key \in DOMAIN fsm_timestamps
                                           THEN Some(fsm_timestamps[key])
                                           ELSE Nothing,
                                evicted |-> expired, main |-> x.main,
                                errors |-> x.errors, early |-> x.early,
                                known |-> FALSE]]
                  : x \in DispatchRuns(extra, B)}

(***************************************************************************)
(* Registration: EventObserver.register, MiddlewareManager.register.       *)
(***************************************************************************)
RECURSIVE Sum(_, _)
Sum(f, S) == IF S = {} THEN 0
             ELSE LET x == CHOOSE y \in S : TRUE IN f[x] + Sum(f, S \ {x})

Observers == Routers \X Categories
HandlerCount == Sum([o \in Observers |-> handlers[o[1]][o[2]]], Observers)
MiddlewareCount == Sum([o \in Observers |-> Len(middlewares[o[1]][o[2]])], Observers)

\* the routers of the dispatcher's tree
InTree == {Dispatcher} \cup Descendants(Dispatcher)

\* observer.register(callback, *filters): handlers.append(HandlerObject(...))
Register(r, cat) ==
    /\ ~running
    /\ HandlerCount < MaxHandlers
    /\ handlers' = [handlers EXCEPT ![r][cat] = @ + 1]
    /\ last' = [NoCall EXCEPT !.op = "register", !.r = r, !.arg = <<cat>>]
    /\ UNCHANGED <<extVars, graphVars, middlewares, fsmVars, pollVars>>

\* observer.middleware.register(middleware): middlewares.append(middleware).
\* An ErrorsMiddleware is built for the router it is registered on; on an
\* "error" observer it would re-enter itself without end when an error
\* handler raises, so it is registered on update observers only.
RegisterMiddlewareUpTo(n, r, cat, kind) ==
    /\ ~running
    /\ MiddlewareCount < n
    /\ kind = "errors" => cat # "error"
    /\ middlewares' = [middlewares EXCEPT ![r][cat] = Append(@, kind)]
    /\ last' = [NoCall EXCEPT !.op = "register_middleware", !.r = r, !.arg = <<cat>>]
    /\ UNCHANGED <<extVars, graphVars, handlers, fsmVars, pollVars>>

RegisterMiddleware(r, cat, kind) == RegisterMiddlewareUpTo(MaxMiddlewares, r, cat, kind)

\* The application wires its router tree below the dispatcher before polling.
Wire(parent, child) ==
    /\ ~running
    /\ parent \in InTree
    /\ child \notin InTree
    /\ IncludeRouter(parent, child)

(***************************************************************************)
(* Behaviours of the application code.                                     *)
(***************************************************************************)
Behaviour(filters, cb, eff) == [filters |-> filters, cb |-> cb, eff |-> eff]

\* Handlers with a matching, a failing or a raising filter, whose
\* callback returns None or a value, raises SkipHandler, CancelHandler or
\* another exception, and leaves the FSM record alone.
DispatchHandlers ==
    {Behaviour(f, c, "keep") :
        f \in {<<FTrue>>, <<FFalse>>, <<FRaise>>},
        c \in {None, "A", SkipHandler, CancelHandler, "Error"}}

DispatchB == [message |-> DispatchHandlers, error |-> DispatchHandlers,
              mw |-> {"next", "short", "raise"}]

DispatchUpdates ==
    {Update(t, v, c, "u1") : t \in {"newMessage", "unknown"}, v \in BOOLEAN, c \in {"c1"}}

(***************************************************************************)
(* Direct calls of EventObserver.trigger, Router.propagate_event and       *)
(* Dispatcher.feed_update.  The calls read the registrations and, without  *)
(* session timeout and with callbacks that leave the FSM alone, change     *)
(* nothing: a call made right after another one reaches no state that the  *)
(* first could not reach, so the history keeps a single call.              *)
(***************************************************************************)
Calls == {"trigger", "propagate", "propagate_event", "feed_update"}

TriggerCall(r, cat) ==
    /\ ~running
    /\ last.op \notin Calls
    /\ \E x \in Trigger(r, cat, "update", Kwargs(None, {}), DispatchB) :
          last' = [NoCall EXCEPT !.op = "trigger", !.r = r, !.arg = <<cat>>,
                                 !.out = x.out, !.tr = x.tr]
    /\ UNCHANGED <<extVars, graphVars, regVars, fsmVars, pollVars>>

PropagateCall(r, cat) ==
    /\ ~running
    /\ last.op \notin Calls
    /\ \E x \in PropagateEvent(r, cat, "update", Kwargs(None, {}), DispatchB) :
          last' = [NoCall EXCEPT !.op = "propagate_event", !.r = r, !.arg = <<cat>>,
                                 !.out = x.out, !.tr = x.tr]
    /\ UNCHANGED <<extVars, graphVars, regVars, fsmVars, pollVars>>

FeedCall(u) ==
    /\ ~running
    /\ last.op \notin Calls
    /\ \E x \in FeedUpdate(u, 0, DispatchB) :
          /\ storage' = x.storage
          /\ fsm_timestamps' = x.fsm_timestamps
          /\ now' = x.now
          /\ last' = [NoCall EXCEPT !.op = "feed_update", !.arg = <<u>>,
                                 !.out = x.out, !.tr = x.tr, !.fsm = x.fsm]
    /\ UNCHANGED <<extVars, graphVars, regVars, session_timeout, finished, idle, pollVars>>

(***************************************************************************)
(* Polling: Dispatcher.start_polling and Dispatcher._polling for one bot.  *)
(***************************************************************************)
\* start_polling: self._running = True, then the polling task is started
StartPolling ==
    /\ ~running
    /\ running' = TRUE
    /\ pending' = <<>>
    /\ idle' = Nothing
    /\ last' = [NoCall EXCEPT !.op = "start_polling"]
    /\ UNCHANGED <<extVars, graphVars, regVars, storage, fsm_timestamps, session_timeout,
                   now, finished>>

\* _polling: `updates = await bot.get_events()` once the previous batch is
\* through
GetEvents(updates) ==
    /\ running
    /\ pending = <<>>
    /\ updates # <<>>
    /\ pending' = updates
    /\ idle' = Nothing
    /\ last' = [NoCall EXCEPT !.op = "get_events", !.arg = updates]
    /\ UNCHANGED <<extVars, graphVars, regVars, storage, fsm_timestamps, session_timeout,
                   now, finished, running>>

\* _polling: `await self.feed_update(bot, update)` for the next update of
\* the batch.  An exception out of feed_update ends the for loop: the
\* `except Exception` clause of the while loop drops the rest of the batch.
PollFeed(dt, B) ==
    /\ running
    /\ pending # <<>>
    /\ now + dt <= MaxTime
    /\ \E x \in FeedUpdate(Head(pending), dt, B) :
          /\ storage' = x.storage
          /\ fsm_timestamps' = x.fsm_timestamps
          /\ now' = x.now
          /\ pending' = IF x.out.kind = "raise" THEN <<>> ELSE Tail(pending)
          /\ finished' = IF x.fsm.key \in Keys
                         THEN [finished EXCEPT ![x.fsm.key] = Some(x.now)]
                         ELSE finished
          /\ idle' = IF x.fsm.key \in Keys /\ finished[x.fsm.key] # Nothing
                     THEN Some(now - finished[x.fsm.key][1])
                     ELSE Nothing
          /\ last' = [NoCall EXCEPT !.op = "poll_feed", !.arg = pending,
                                    !.out = x.out, !.tr = x.tr, !.fsm = x.fsm]
    /\ UNCHANGED <<extVars, graphVars, regVars, session_timeout, running>>

\* time.monotonic() advances while the loop waits in get_events
Tick ==
    /\ running
    /\ pending = <<>>
    /\ now < MaxTime
    /\ now' = now + 1
    /\ idle' = Nothing
    /\ last' = [NoCall EXCEPT !.op = "tick"]
    /\ UNCHANGED <<extVars, graphVars, regVars, storage, fsm_timestamps, session_timeout,
                   finished, pollVars>>

\* the batches get_events may return
Batches(updates) == UNION {[1..n -> updates] : n \in 1..MaxBatch}

PollingHandlers ==
    {Behaviour(<<FTrue>>, c, "keep") : c \in {None, "A", "Error"}}
        \cup {Behaviour(<<FFalse>>, None, "keep"), Behaviour(<<FRaise>>, None, "keep")}

PollingB == [message |-> PollingHandlers, error |-> PollingHandlers,
             mw |-> {"next", "short", "raise"}]

PollingUpdates ==
    {Update("newMessage", TRUE, "c1", "u1"), Update("newMessage", FALSE, "c1", "u1"),
     Update("unknown", TRUE, "c1", "u1")}

\* A dispatcher without session timeout: handlers and a middleware are
\* registered on it for updates and for errors, then it polls one bot.
NextPolling ==
    \/ \E c \in Categories : Register(Dispatcher, c)
    \/ \E c \in Categories, k \in {"errors", "user"} : RegisterMiddleware(Dispatcher, c, k)
    \/ StartPolling
    \/ \E b \in Batches(PollingUpdates) : GetEvents(b)
    \/ PollFeed(0, PollingB)

SpecPolling == Init /\ [][NextPolling]_vars

\* Callbacks that set the state, clear the record or write a field before
\* they return or raise.
TimeoutHandlers ==
    {Behaviour(<<FTrue>>, None, e) : e \in {"keep", "set_state", "clear", "update_data"}}
        \cup {Behaviour(<<FTrue>>, "Error", e) : e \in {"keep", "set_state", "clear"}}
        \cup {Behaviour(<<FFalse>>, None, "keep")}

TimeoutErrorHandlers ==
    {Behaviour(<<FTrue>>, None, "keep"), Behaviour(<<FTrue>>, "Error", "keep"),
     Behaviour(<<FTrue>>, "Error", "update_data"), Behaviour(<<FFalse>>, None, "keep")}

TimeoutB == [message |-> TimeoutHandlers, error |-> TimeoutErrorHandlers,
             mw |-> {"next"}]

\* updates of two users in one chat, and updates without chat and sender
TimeoutUpdates ==
    {Update("newMessage", TRUE, "c1", "u1"), Update("newMessage", TRUE, "c1", "u2"),
     Update("newMessage", TRUE, "", "")}

Timeouts == {Nothing} \cup {Some(t) : t \in 1..MaxTimeout}

InitTimeout == \E t \in Timeouts : Constructed(t)

\* A dispatcher with or without session timeout and at most one handler per
\* observer polls one bot while the clock advances.
NextTimeout ==
    \/ \E c \in Categories : handlers[Dispatcher][c] = 0 /\ Register(Dispatcher, c)
    \/ StartPolling
    \/ \E u \in TimeoutUpdates : GetEvents(<<u>>)
    \/ \E dt \in {0, 1} : PollFeed(dt, TimeoutB)
    \/ Tick

SpecTimeout == InitTimeout /\ [][NextTimeout]_vars

\* Handlers that match and return a value or None, or do not match;
\* middlewares that call on, return early with a value, None or UNHANDLED,
\* or raise.
MiddlewareHandlers ==
    {Behaviour(<<FTrue>>, "A", "keep"), Behaviour(<<FTrue>>, None, "keep"),
     Behaviour(<<FFalse>>, None, "keep")}

MiddlewareB == [message |-> MiddlewareHandlers, error |-> MiddlewareHandlers,
                mw |-> {"next", "short", "short_none", "short_unhandled", "raise"}]

\* router.propagate_event(update_type, event) with middlewares registered
MiddlewareCall(r, cat) ==
    /\ ~running
    /\ last.op \notin Calls
    /\ \E x \in PropagateEvent(r, cat, "update", Kwargs(None, {}), MiddlewareB) :
          last' = [NoCall EXCEPT !.op = "propagate_event", !.r = r, !.arg = <<cat>>,
                                 !.out = x.out, !.tr = x.tr]
    /\ UNCHANGED <<extVars, graphVars, regVars, fsmVars, pollVars>>

\* observer.propagate(event) with middlewares registered
ObserverCall(r, cat) ==
    /\ ~running
    /\ last.op \notin Calls
    /\ \E x \in ObserverPropagate(r, cat, "update", Kwargs(None, {}), MiddlewareB) :
          last' = [NoCall EXCEPT !.op = "propagate", !.r = r, !.arg = <<cat>>,
                                 !.out = x.out, !.tr = x.tr]
    /\ UNCHANGED <<extVars, graphVars, regVars, fsmVars, pollVars>>

\* Routers wired into a tree below the dispatcher, handlers and application
\* middlewares registered for one update category, then an event is
\* propagated from a router or through one observer.
NextMiddleware ==
    \/ \E p \in Routers, c \in Routers : Wire(p, c)
    \/ \E r \in InTree : Register(r, "message")
    \/ \E r \in InTree : RegisterMiddlewareUpTo(MaxChain, r, "message", "user")
    \/ \E r \in InTree : MiddlewareCall(r, "message")
    \/ \E r \in InTree : ObserverCall(r, "message")

SpecMiddleware == Init /\ [][NextMiddleware]_vars

\* Routers wired into a tree below the dispatcher, handlers registered for
\* one update category, then a trigger or propagate_event call.
NextPropagate ==
    \/ \E p \in Routers, c \in Routers : Wire(p, c)
    \/ \E r \in InTree : Register(r, "message")
    \/ \E r \in Routers : TriggerCall(r, "message")
    \/ \E r \in Routers : PropagateCall(r, "message")

SpecPropagate == Init /\ [][NextPropagate]_vars

\* A dispatcher without session timeout and one sub-router: handlers and
\* middlewares are registered for updates and for errors, then an event is
\* dispatched.
NextDispatch ==
    \/ Wire(Dispatcher, "r1")
    \/ \E r \in InTree, c \in Categories : Register(r, c)
    \/ \E r \in InTree, c \in Categories, k \in {"errors", "user"} :
            RegisterMiddleware(r, c, k)
    \/ \E r \in InTree : PropagateCall(r, "message")
    \/ \E u \in DispatchUpdates : FeedCall(u)

SpecDispatch == Init /\ [][NextDispatch]_vars

(***************************************************************************)
(* Handlers taken alone: HandlerObject.check over lists of filters, the    *)
(* filter combinators, HandlerObject.call.                                 *)
(***************************************************************************)
\* Filters that return a constant (the entry x of the mapping is another
\* value than the x the caller may pass), and one that reads its kwargs.
Filters0 ==
    {FTrue, FFalse, FNone, FFalsy, FTruthy, FDict({}), FDict({<<"x", 1>>}),
     FRaise, FNeeds({"x"})}

\* f & g, f | g, ~f, ~~f
Combined ==
    {AndFilter(f, g) : f, g \in Filters0} \cup {OrFilter(f, g) : f, g \in Filters0}
        \cup {Inverted(f) : f \in Filters0} \cup {Inverted(Inverted(f)) : f \in Filters0}

\* the filters a handler is registered with
FilterLists ==
    UNION {[1..n -> Filters0] : n \in 0..MaxFilters} \cup {<<c>> : c \in Combined}

\* the kwargs the observer checks a handler with: without or with an entry x
CheckKwargs == {Kwargs(None, {}), Kwargs(None, {<<"x", 0>>})}

\* The calls below change nothing but the history: a call made right after
\* another one reaches no state that the first could not reach.
HandlerCalls == Calls \cup {"check", "call"}

\* handler.check(event, kwargs) on a handler with the given filters
CheckCall ==
    /\ ~running
    /\ last.op \notin HandlerCalls
    /\ \E filters \in FilterLists, kwargs \in CheckKwargs :
          last' = [NoCall EXCEPT !.op = "check", !.arg = <<filters, kwargs>>,
                                 !.out = HandlerCheck(filters, kwargs)]
    /\ UNCHANGED <<extVars, graphVars, regVars, fsmVars, pollVars>>

\* Handlers whose filters return mappings, read the kwargs, reject the
\* event or raise, and whose callback returns or raises SkipHandler.
HandlerFilters ==
    {<<>>, <<FNeeds({"x"})>>, <<FDict({<<"x", 1>>})>>,
     <<FDict({<<"x", 1>>}), FNeeds({"x"})>>,
     <<FDict({<<"y", 1>>}), FDict({<<"x", 1>>, <<"y", 2>>})>>,
     <<FDict({<<"y", 1>>}), FFalse>>}

HandlerHandlers ==
    {Behaviour(f, c, "keep") : f \in HandlerFilters, c \in {"A", SkipHandler}}

HandlerB == [message |-> HandlerHandlers, error |-> HandlerHandlers, mw |-> {"next"}]

\* observer.trigger(event, **kwargs) on the dispatcher's "message" observer
HandlerTrigger ==
    /\ ~running
    /\ last.op \notin HandlerCalls
    /\ \E kwargs \in CheckKwargs :
         \E x \in Trigger(Dispatcher, "message", "update", kwargs, HandlerB) :
            last' = [NoCall EXCEPT !.op = "trigger", !.arg = <<"message", kwargs>>,
                                   !.out = x.out, !.tr = x.tr]
    /\ UNCHANGED <<extVars, graphVars, regVars, fsmVars, pollVars>>

\* A parameter of a callback: inspect.Parameter name and kind.
Parameter(name, kind) == [name |-> name, kind |-> kind]
VAR_KEYWORD == "VAR_KEYWORD"
VAR_POSITIONAL == "VAR_POSITIONAL"
ParameterKinds == {"POSITIONAL_OR_KEYWORD", "KEYWORD_ONLY", VAR_POSITIONAL, VAR_KEYWORD}

\* the parameters a callback may declare after the event
Parameters ==
    {Parameter(n, k) : n \in {"x", "y", "current_state"},
                       k \in {"POSITIONAL_OR_KEYWORD", "KEYWORD_ONLY"}}
        \cup {Parameter("args", VAR_POSITIONAL), Parameter("kwargs", VAR_KEYWORD)}

\* inspect.signature(callback).parameters of the callbacks Python accepts:
\* the event first, no name twice, **kwargs last
Signatures ==
    {<<Parameter("event", "POSITIONAL_OR_KEYWORD")>> \o rest :
        rest \in {q \in UNION {[1..n -> Parameters] : n \in 0..MaxParams} :
                    /\ \A a, b \in DOMAIN q : a # b => q[a].name # q[b].name
                    /\ \A a \in DOMAIN q : q[a].kind = VAR_KEYWORD => a = Len(q)}}

RECURSIVE PostInit(_)
\* HandlerObject.__post_init__: _params and _has_kwargs from the signature
PostInit(sig) ==
    IF sig = <<>> THEN [params |-> {}, has_kwargs |-> FALSE]
    ELSE LET rest == PostInit(Tail(sig))
         IN  IF Head(sig).kind = VAR_KEYWORD
             THEN [rest EXCEPT !.has_kwargs = TRUE]
             ELSE [rest EXCEPT !.params = @ \cup {Head(sig).name}]

\* the **kwargs of handler.call(event, **updated_kwargs): current_state and
\* the other entries in flight
InFlight(kwargs) == kwargs.inj \cup {<<"current_state", kwargs.current_state>>}

\* HandlerObject.call with every kwarg passed on to the callback
HandlerCallPassesAll(sig, kwargs) == InFlight(kwargs)

\* HandlerObject.call: the keyword arguments the callback is called with
HandlerCall(sig, kwargs) ==
    IF PostInit(sig).has_kwargs THEN InFlight(kwargs)
    ELSE {e \in InFlight(kwargs) : e[1] \in PostInit(sig).params}

\* the kwargs in flight when a handler is called
CallKwargs ==
    {Kwargs(None, inj) : inj \in SUBSET {<<"x", 0>>, <<"y", 1>>, <<"z", 2>>}}

\* handler.call(event, **kwargs) on a handler with the given callback
CallCall ==
    /\ ~running
    /\ last.op \notin HandlerCalls
    /\ \E sig \in Signatures, kwargs \in CallKwargs :
          last' = [NoCall EXCEPT !.op = "call", !.arg = <<sig, kwargs>>,
                                 !.out = HandlerCall(sig, kwargs)]
    /\ UNCHANGED <<extVars, graphVars, regVars, fsmVars, pollVars>>

NextHandler ==
    \/ Register(Dispatcher, "message")
    \/ CheckCall
    \/ HandlerTrigger
    \/ CallCall

SpecHandler == Init /\ [][NextHandler]_vars

(***************************************************************************)
(* FSMContext over MemoryStorage, call by call.  MemoryStorage._storage is *)
(* a defaultdict: it starts empty and every access of a key that is not in *)
(* it, reads included, puts a _StorageRecord() under the key.              *)
(***************************************************************************)
\* What set_state is called with: a State of a StatesGroup (or of none,
\* with or without a name of its own), a string, or None.
StateObject(group, name) == [type |-> "State", group |-> group, name |-> name]
StateString(str) == [type |-> "str", group |-> "", name |-> str]
StateNone == [type |-> "NoneType", group |-> "", name |-> ""]

\* State.state: f"{group_name}:{state_name}"
StateProperty(s) == s.group \o ":" \o s.name

\* FSMContext.set_state: state.state if isinstance(state, State) else state
StateStr(s) ==
    CASE s.type = "State" -> StateProperty(s)
      [] s.type = "str" -> s.name
      [] OTHER -> None

StateArgs ==
    {StateNone, StateString(FormName), StateObject("Form", "age"), StateObject("", "")}

\* the dicts passed to set_data, the kwargs passed to update_data
DataArgs == {EmptyData, [f \in {"a"} |-> 1]}
UpdateArgs == {[f \in {"a"} |-> 2]}

\* the keys of the FSM contexts used
ContextKeys == {StorageKey("c1", "u1"), StorageKey("c1", "u2")}

\* MemoryStorage.__init__
MemoryStorage == [k \in {} |-> StorageRecord]

\* self._storage[key] of the defaultdict
Touch(store, key) == IF key \in DOMAIN store THEN store ELSE Put(store, key, StorageRecord)

\* One call on the FSMContext of a key: the storage after it and what it
\* returns.
ContextCall(store, key, op, arg) ==
    LET touched == Touch(store, key)
        rec == touched[key]
    IN  CASE op = "set_state" ->
                [store |-> [touched EXCEPT ![key] = SetState(rec, StateStr(arg))],
                 out |-> None]
          [] op = "get_state" -> [store |-> touched, out |-> rec.state]
          [] op = "set_data" ->
                [store |-> [touched EXCEPT ![key] = SetData(rec, arg)], out |-> None]
          [] op = "get_data" -> [store |-> touched, out |-> rec.data]
          [] op = "update_data" ->
                [store |-> [touched EXCEPT ![key] = UpdateData(rec, arg)],
                 out |-> UpdateData(rec, arg).data]
          [] op = "clear" ->
                [store |-> [touched EXCEPT ![key] = Clear(rec)], out |-> None]

\* the call made before the last one, kept in the history with the last
Previous == IF last.op = "none" THEN <<>> ELSE <<[last EXCEPT !.tr = <<>>]>>

\* A call on the context of a key; the history keeps the record the call
\* found (None and {} when the key was not in the storage).
Context(key, op, arg) ==
    LET x == ContextCall(storage, key, op, arg)
    IN  /\ storage' = x.store
        /\ last' = [NoCall EXCEPT !.op = op, !.arg = <<key, arg>>, !.out = x.out,
                                  !.tr = Previous,
                                  !.fsm = [NoFeed EXCEPT !.key = key,
                                              !.state0 = Touch(storage, key)[key].state,
                                              !.data0 = Touch(storage, key)[key].data,
                                              !.known = key \in DOMAIN storage]]
        /\ UNCHANGED <<extVars, graphVars, regVars, fsm_timestamps, session_timeout, now,
                       finished, idle, pollVars>>

InitFSM ==
    /\ sub_routers = [r \in Routers |-> <<>>]
    /\ parent_router = [r \in Routers |-> None]
    /\ handlers = [r \in Routers |-> [c \in Categories |-> 0]]
    /\ middlewares = [r \in Routers |-> [c \in Categories |-> <<>>]]
    /\ storage = MemoryStorage
    /\ fsm_timestamps = [k \in {} |-> 0]
    /\ session_timeout = Nothing
    /\ now = 0
    /\ running = FALSE
    /\ pending = <<>>
    /\ finished = [k \in Keys |-> Nothing]
    /\ idle = Nothing
    /\ objects = NoObjects
    /\ fsm_strategy = USER_IN_CHAT
    /\ loop = NoLoop
    /\ SideInit
    /\ last = NoCall

NextFSM ==
    \/ \E key \in ContextKeys, s \in StateArgs : Context(key, "set_state", s)
    \/ \E key \in ContextKeys : Context(key, "get_state", None)
    \/ \E key \in ContextKeys, d \in DataArgs : Context(key, "set_data", d)
    \/ \E key \in ContextKeys : Context(key, "get_data", None)
    \/ \E key \in ContextKeys, d \in UpdateArgs : Context(key, "update_data", d)
    \/ \E key \in ContextKeys : Context(key, "clear", None)

SpecFSM == InitFSM /\ [][NextFSM]_vars

(***************************************************************************)
(* The data bag as an object.  A dict is an object with an identity: the   *)
(* record of a key refers to one, the application holds the ones it made   *)
(* or was given and may change them at any time.  The world w is           *)
(* [storage, objects]; storage maps a key to [state, data] with data the   *)
(* id of a dict object.                                                    *)
(***************************************************************************)
\* a new dict object with the entries d; its id is the number of objects
Alloc(objs, d) == [objs EXCEPT !.dicts = Append(@, d)]
Newest(objs) == Len(objs.dicts)
World(store, objs) == [storage |-> store, objects |-> objs]

\* self._storage[key]: the defaultdict makes _StorageRecord(), whose data is
\* a new dict
TouchObject(w, key) ==
    IF key \in DOMAIN w.storage THEN w
    ELSE LET o == Alloc(w.objects, EmptyData)
         IN  World(Put(w.storage, key, [state |-> None, data |-> Newest(o)]), o)

\* get_data returning the stored dict itself
MemoryGetDataAlias(w, key) ==
    LET t == TouchObject(w, key)
    IN  [w |-> t, ref |-> t.storage[key].data]

\* MemoryStorage.get_data: self._storage[key].data.copy()
MemoryGetData(w, key) ==
    LET t == TouchObject(w, key)
        o == Alloc(t.objects, t.objects.dicts[t.storage[key].data])
    IN  [w |-> World(t.storage, o), ref |-> Newest(o)]

\* MemoryStorage.set_data: self._storage[key].data = data.copy()
MemorySetData(w, key, ref) ==
    LET t == TouchObject(w, key)
        o == Alloc(t.objects, t.objects.dicts[ref])
    IN  World([t.storage EXCEPT ![key].data = Newest(o)], o)

\* dict.update(kwargs) on the object ref
ObjectUpdate(objs, ref, kwargs) ==
    [objs EXCEPT !.dicts[ref] =
        [f \in DOMAIN @ \cup DOMAIN kwargs |->
            IF f \in DOMAIN kwargs THEN kwargs[f] ELSE @[f]]]

\* FSMContext.update_data: data = get_data(); data.update(kwargs);
\* set_data(data); return data
ContextUpdateData(w, key, kwargs) ==
    LET g == MemoryGetData(w, key)
        u == World(g.w.storage, ObjectUpdate(g.w.objects, g.ref, kwargs))
    IN  [w |-> MemorySetData(u, key, g.ref), ref |-> g.ref]

\* FSMContext.clear: set_state(None), then set_data({}) with a new dict
ContextClear(w, key) ==
    LET t == TouchObject(w, key)
        n == World([t.storage EXCEPT ![key].state = None], Alloc(t.objects, EmptyData))
    IN  MemorySetData(n, key, Newest(n.objects))

\* the application is given the object ref
Hold(objs, ref) == [objs EXCEPT !.held = @ \cup {ref}]

\* the step to world w by the call op, which returned the object ref (0: none)
DataStep(w, op, key, arg, ref) ==
    /\ Newest(w.objects) <= MaxObjects
    /\ storage' = w.storage
    /\ objects' = IF ref = 0 THEN w.objects ELSE Hold(w.objects, ref)
    /\ last' = [NoCall EXCEPT !.op = op, !.arg = <<key, arg>>, !.out = ref,
                              !.tr = Previous]
    /\ UNCHANGED <<graphVars, regVars, fsm_timestamps, session_timeout, now,
                   finished, idle, pollVars, fsm_strategy, loop, sideVars>>

\* the application makes a dict
NewDict(d) ==
    DataStep(World(storage, Alloc(objects, d)), "dict", NoKey, d, Newest(objects) + 1)

\* the application changes a dict it holds: ref[f] = v
Mutate(ref, f, v) ==
    /\ ref \in objects.held
    /\ DataStep(World(storage, ObjectUpdate(objects, ref, [x \in {f} |-> v])),
                "mutate", NoKey, ref, 0)

GetData(key) ==
    LET g == MemoryGetData(World(storage, objects), key)
    IN  DataStep(g.w, "get_data", key, None, g.ref)

SetDataObject(key, ref) ==
    /\ ref \in objects.held
    /\ DataStep(MemorySetData(World(storage, objects), key, ref), "set_data", key, ref, 0)

UpdateDataObject(key, kwargs) ==
    LET u == ContextUpdateData(World(storage, objects), key, kwargs)
    IN  DataStep(u.w, "update_data", key, kwargs, u.ref)

ClearObject(key) ==
    DataStep(ContextClear(World(storage, objects), key), "clear", key, None, 0)

DataKey == StorageKey("c1", "u1")

NextData ==
    \/ \E d \in DataArgs : NewDict(d)
    \/ \E ref \in 1..MaxObjects, v \in {1, 2} : Mutate(ref, "a", v)
    \/ GetData(DataKey)
    \/ \E ref \in 1..MaxObjects : SetDataObject(DataKey, ref)
    \/ \E d \in UpdateArgs : UpdateDataObject(DataKey, d)
    \/ ClearObject(DataKey)

SpecData == InitFSM /\ [][NextData]_vars

(***************************************************************************)
(* The storage backends: MemoryStorage and RedisStorage behind              *)
(* BaseStorage.  The variable storage is [backend, store]; the store of    *)
(* the memory backend maps StorageKeys to records, the store of the Redis  *)
(* backend maps Redis key strings to the strings stored.                   *)
(***************************************************************************)
\* StorageKey(bot_id, chat_id, user_id, destiny)
DestinyKey(chat_id, user_id, destiny) == <<"bot", chat_id, user_id, destiny>>
BackendKeys ==
    {DestinyKey("c1", "u1", "default"), DestinyKey("c1", "u1", "other"),
     DestinyKey("c1", "u2", "default")}

\* RedisStorage._make_key: f"{prefix}:fsm:{bot_id}:{chat_id}:{user_id}:{part}"
MakeKey(key, part) ==
    "vkworkspace" \o ":fsm:" \o key[1] \o ":" \o key[2] \o ":" \o key[3] \o ":" \o part

\* json.dumps(data) and json.loads(raw) of a dict of strings to numbers
JsonDumps(data) == [json |-> data]
JsonLoads(raw) == raw.json

\* BaseStorage.set_state(key, state)
BackendSetState(st, key, state) ==
    IF st.backend = "memory"
    THEN [st EXCEPT !.store = [Touch(@, key) EXCEPT ![key] = SetState(@, state)]]
    ELSE IF state = None
         THEN [st EXCEPT !.store = Drop(@, MakeKey(key, "state"))]
         ELSE [st EXCEPT !.store = Put(@, MakeKey(key, "state"), state)]

\* BaseStorage.get_state(key)
BackendGetState(st, key) ==
    IF st.backend = "memory" THEN Touch(st.store, key)[key].state
    ELSE IF MakeKey(key, "state") \in DOMAIN st.store
         THEN st.store[MakeKey(key, "state")]
         ELSE None

\* BaseStorage.set_data(key, data)
BackendSetData(st, key, data) ==
    IF st.backend = "memory"
    THEN [st EXCEPT !.store = [Touch(@, key) EXCEPT ![key] = SetData(@, data)]]
    ELSE IF data # EmptyData
         THEN [st EXCEPT !.store = Put(@, MakeKey(key, "data"), JsonDumps(data))]
         ELSE [st EXCEPT !.store = Drop(@, MakeKey(key, "data"))]

\* BaseStorage.get_data(key)
BackendGetData(st, key) ==
    IF st.backend = "memory" THEN Touch(st.store, key)[key].data
    ELSE IF MakeKey(key, "data") \in DOMAIN st.store
         THEN JsonLoads(st.store[MakeKey(key, "data")])
         ELSE EmptyData

\* the step to the storage st by a call on the backend
BackendStep(st, op, key, arg) ==
    /\ storage' = st
    /\ last' = [NoCall EXCEPT !.op = op, !.arg = <<key, arg>>]
    /\ UNCHANGED <<graphVars, regVars, fsm_timestamps, session_timeout, now,
                   finished, idle, pollVars, extVars>>

\* Dispatcher(storage=MemoryStorage()) or Dispatcher(storage=RedisStorage(redis))
InitBackends ==
    /\ sub_routers = [r \in Routers |-> <<>>]
    /\ parent_router = [r \in Routers |-> None]
    /\ handlers = [r \in Routers |-> [c \in Categories |-> 0]]
    /\ middlewares = [r \in Routers |-> [c \in Categories |-> <<>>]]
    /\ \E b \in {"memory", "redis"} : storage = [backend |-> b, store |-> <<>>]
    /\ fsm_timestamps = [k \in {} |-> 0]
    /\ session_timeout = Nothing
    /\ now = 0
    /\ running = FALSE
    /\ pending = <<>>
    /\ finished = [k \in Keys |-> Nothing]
    /\ idle = Nothing
    /\ objects = NoObjects
    /\ fsm_strategy = USER_IN_CHAT
    /\ loop = NoLoop
    /\ SideInit
    /\ last = NoCall

NextBackends ==
    \/ \E key \in BackendKeys, s \in {None, FormName, "Form:age"} :
            BackendStep(BackendSetState(storage, key, s), "set_state", key, s)
    \/ \E key \in BackendKeys, d \in DataArgs \cup UpdateArgs :
            BackendStep(BackendSetData(storage, key, d), "set_data", key, d)

SpecBackends == InitBackends /\ [][NextBackends]_vars

(***************************************************************************)
(* update_data calls in a row on one key; the history keeps their kwargs.  *)
(***************************************************************************)
\* the kwargs of update_data: one or two fields
UpdateKwargs ==
    UNION {[fs -> {1, 2}] : fs \in SUBSET {"a", "b"} \ {{}}}

\* state.update_data(**kwargs)
UpdateDataCall(key, kwargs) ==
    LET x == ContextCall(storage, key, "update_data", kwargs)
    IN  /\ Len(last.tr) < MaxUpdates
        /\ storage' = x.store
        /\ last' = [NoCall EXCEPT !.op = "update_data", !.arg = <<key, kwargs>>,
                                  !.out = x.out, !.tr = Append(last.tr, kwargs)]
        /\ UNCHANGED <<graphVars, regVars, fsm_timestamps, session_timeout, now,
                       finished, idle, pollVars, extVars>>

\* state.get_data() after them
GetDataCall(key) ==
    LET x == ContextCall(storage, key, "get_data", None)
    IN  /\ last.op = "update_data"
        /\ storage' = x.store
        /\ last' = [NoCall EXCEPT !.op = "get_data", !.arg = <<key, None>>,
                                  !.out = x.out, !.tr = last.tr]
        /\ UNCHANGED <<graphVars, regVars, fsm_timestamps, session_timeout, now,
                       finished, idle, pollVars, extVars>>

NextUpdate ==
    \/ \E kwargs \in UpdateKwargs : UpdateDataCall(DataKey, kwargs)
    \/ GetDataCall(DataKey)

SpecUpdate == InitFSM /\ [][NextUpdate]_vars

(***************************************************************************)
(* The FSM strategy: Dispatcher(fsm_strategy=...) and the key feed_update  *)
(* works on.                                                               *)
(***************************************************************************)
\* FSMContextMiddleware._build_key: the key of an event under a strategy
BuildKey(strategy, u) ==
    IF u.chat = "" /\ u.user = "" THEN NoKey
    ELSE CASE strategy = USER_IN_CHAT -> StorageKey(u.chat, u.user)
           [] strategy = CHAT -> StorageKey(u.chat, "")
           [] strategy = GLOBAL_USER -> StorageKey("", u.user)
           [] OTHER -> NoKey

\* handlers that set the state, write a field, clear the record or leave
\* it alone
StrategyHandlers ==
    {Behaviour(<<FTrue>>, None, e) : e \in {"set_state", "update_data", "clear", "keep"}}
StrategyB == [message |-> StrategyHandlers, error |-> StrategyHandlers, mw |-> {"next"}]

\* updates of two users in one chat, and one without chat and sender
StrategyUpdates ==
    {Update("newMessage", TRUE, "c1", "u1"), Update("newMessage", TRUE, "c1", "u2"),
     Update("newMessage", TRUE, "", "")}

\* dispatcher.feed_update(bot, update)
StrategyFeed(u) ==
    /\ ~running
    /\ \E x \in FeedUpdate(u, 0, StrategyB) :
          /\ storage' = x.storage
          /\ fsm_timestamps' = x.fsm_timestamps
          /\ now' = x.now
          /\ last' = [NoCall EXCEPT !.op = "feed_update", !.arg = <<u>>,
                                 !.out = x.out, !.tr = x.tr, !.fsm = x.fsm]
    /\ UNCHANGED <<extVars, graphVars, regVars, session_timeout, finished, idle, pollVars>>

InitStrategy ==
    \E strategy \in {USER_IN_CHAT, CHAT, GLOBAL_USER} : ConstructedWith(Nothing, strategy)

NextStrategy ==
    \/ handlers[Dispatcher]["message"] = 0 /\ Register(Dispatcher, "message")
    \/ \E u \in StrategyUpdates : StrategyFeed(u)

SpecStrategy == InitStrategy /\ [][NextStrategy]_vars

(***************************************************************************)
(* The polling lifecycle on the asyncio event loop: Dispatcher._polling,   *)
(* start_polling, stop and _stop_signal.  A coroutine runs from one await  *)
(* that suspends it to the next; the loop runs the callbacks of its ready  *)
(* queue in the order they were scheduled.                                 *)
(***************************************************************************)
\* min(2**consecutive_errors, 60)
MaxDelay == 60

Min(a, b) == IF a <= b THEN a ELSE b

\* callbacks of the ready queue: the step of a task, gather's done callback
\* for the task of bot b, and a call from outside start_polling
Wake(who) == [kind |-> "wake", who |-> who]
DoneCallback(b) == [kind |-> "done", who |-> b]
Call(f) == [kind |-> "call", who |-> f]

Queued(l, cb) == \E i \in 1..Len(l.ready) : l.ready[i] = cb

\* loop.call_soon(cb)
CallSoon(l, cb) == [l EXCEPT !.ready = Append(@, cb)]

\* the coroutine of the task is through, by return or by CancelledError:
\* the task schedules its done callbacks
Ended(l, b, pc) ==
    CallSoon([l EXCEPT !.task[b].pc = pc, !.task[b].pending = <<>>,
                       !.task[b].must_cancel = FALSE],
             DoneCallback(b))

\* stop() that flips the flag and cancels no task
TaskCancelIgnored(l, b) == l

\* task.cancel(): nothing for a task that is done; else CancelledError is
\* thrown into the coroutine at its next step, which is scheduled now
\* unless it is scheduled already
TaskCancel(l, b) ==
    IF l.task[b].pc \in {"none", "done", "cancelled"} THEN l
    ELSE LET m == [l EXCEPT !.task[b].must_cancel = TRUE]
         IN  IF Queued(l, Wake(b)) THEN m ELSE CallSoon(m, Wake(b))

\* _polling: `while self._running:` and under it `await bot.get_events()`
WhileRunning(l, b, run) ==
    IF run
    THEN [l EXCEPT !.task[b].pc = "get_events", !.task[b].pending = <<>>,
                   !.task[b].polls = @ + 1]
    ELSE Ended(l, b, "done")

\* the except clause without the cap of the delay
BackoffUncapped(l, b) ==
    LET k == l.task[b].consecutive_errors + 1
    IN  [l EXCEPT !.task[b].consecutive_errors = k,
                  !.task[b].delay = 2 ^ k,
                  !.task[b].pc = "sleep", !.task[b].pending = <<>>]

\* _polling: `except Exception`, up to `await asyncio.sleep(delay)`
Backoff(l, b) ==
    LET k == l.task[b].consecutive_errors + 1
    IN  [l EXCEPT !.task[b].consecutive_errors = k,
                  !.task[b].delay = Min(2 ^ k, MaxDelay),
                  !.task[b].pc = "sleep", !.task[b].pending = <<>>]

RECURSIVE FeedFrom(_, _, _)
\* _polling with a task created for each update of the batch
\* (`asyncio.create_task(self.feed_update(bot, update))`): every update
\* has entered feed_update before the first has returned
FeedFromAllAtOnce(l, b, run) ==
    LET pend == l.task[b].pending
    IN  IF pend = <<>> THEN WhileRunning(l, b, run)
        ELSE [l EXCEPT !.task[b].fed = @ \o pend, !.task[b].pc = "feed_update"]

\* _polling: `for update in updates: await self.feed_update(bot, update)`
\* from the first update pending, up to the next await that suspends.
\* feed_update is through before its first await when the update type is
\* unknown (return UNHANDLED) and when the payload does not validate
\* (model_validate raises).
FeedFrom(l, b, run) ==
    LET pend == l.task[b].pending
        entered == [l EXCEPT !.task[b].fed = Append(@, Head(pend))]
    IN  IF pend = <<>> THEN WhileRunning(l, b, run)
        ELSE IF Head(pend).type = "unknown"
        THEN FeedFrom([entered EXCEPT !.task[b].pending = Tail(pend)], b, run)
        ELSE IF ~Head(pend).valid THEN Backoff(entered, b)
        ELSE [entered EXCEPT !.task[b].pc = "feed_update"]

\* _polling: a batch arrived from get_events
Received(l, b, run, updates) ==
    FeedFrom([l EXCEPT !.task[b].consecutive_errors = 0,
                       !.task[b].pending = updates,
                       !.task[b].batch = updates, !.task[b].fed = <<>>],
             b, run)

\* a callback of the run was awaiting when CancelledError was thrown
Interrupted(tr) == \E i \in 1..Len(tr) : tr[i].op = "call" /\ tr[i].res = CancelledError

\* the feed_update in flight goes on: its callbacks are resumed, or
\* CancelledError is thrown at the await it is suspended in, that of a
\* callback or that of the storage (fsm_context.get_state())
Resumed(u, B, cancel) ==
    {x \in FeedUpdate(u, 0, B) : Interrupted(x.tr) = cancel}
        \cup {[storage |-> storage, fsm_timestamps |-> fsm_timestamps, now |-> now,
               tr |-> <<>>, fsm |-> NoFeed, out |-> Raise(CancelledError)]
              : c \in {cancel} \ {FALSE}}

\* _polling with CancelledError taken by `except Exception`
AfterFeedCancelBacksOff(l, b, run, out) ==
    IF out.kind = "return"
    THEN FeedFrom([l EXCEPT !.task[b].pending = Tail(@)], b, run)
    ELSE Backoff(l, b)

\* _polling after feed_update returned or raised x.out: on to the next
\* update, `except asyncio.CancelledError: break`, or `except Exception`
AfterFeed(l, b, run, out) ==
    IF out.kind = "return"
    THEN FeedFrom([l EXCEPT !.task[b].pending = Tail(@)], b, run)
    ELSE IF out.val = CancelledError THEN Ended(l, b, "done")
    ELSE Backoff(l, b)

\* gather's _done_callback for the task of bot b: nothing once the outer
\* future is done; a cancelled task sets CancelledError on it at once; the
\* last task to end sets the result, or CancelledError when the outer
\* future was cancelled.  The task awaiting gather is woken.
GatherDone(l, b) ==
    IF l.outer # "pending" THEN l
    ELSE IF l.task[b].pc = "cancelled"
    THEN CallSoon([l EXCEPT !.outer = "exception", !.finishing = @ + 1], Wake("main"))
    ELSE IF l.finishing + 1 = Len(l.bots)
    THEN CallSoon([l EXCEPT !.outer = IF l.cancel_requested THEN "exception" ELSE "result",
                            !.finishing = @ + 1],
                  Wake("main"))
    ELSE [l EXCEPT !.finishing = @ + 1]

RECURSIVE CancelFrom(_, _)
\* `for task in self._polling_tasks: task.cancel()` from the i-th task
CancelFrom(l, i) ==
    IF i > Len(l.bots) THEN l ELSE CancelFrom(TaskCancel(l, l.bots[i]), i + 1)

\* the phases in which start_polling is suspended
InProgress == {"startup", "skip", "gather", "shutdown", "close"}

\* the polling tasks that have not ended
Live(l) == {b \in Bots : l.task[b].pc \notin {"none", "done", "cancelled"}}

\* cancel() on the task that runs start_polling.  Awaiting gather, it
\* cancels the outer future, which cancels the polling tasks and waits for
\* them; awaiting anything else, CancelledError is thrown at that await.
MainCancel(l) ==
    LET m == [l EXCEPT !.cancelled = TRUE]
        thrown == [m EXCEPT !.must_cancel = TRUE]
    IN  IF l.phase \notin InProgress THEN l
        ELSE IF l.phase = "gather" /\ l.outer = "pending"
        THEN IF Live(l) # {}
             THEN [CancelFrom(m, 1) EXCEPT !.cancel_requested = TRUE]
             ELSE thrown
        ELSE IF Queued(l, Wake("main")) THEN thrown
        ELSE CallSoon(thrown, Wake("main"))

RECURSIVE EmitOrder(_, _)
RECURSIVE EmitSubs(_, _, _)
\* emit with the sub-routers before the router's own callbacks
EmitOrderChildrenFirst(cbs, r) ==
    EmitSubs(cbs, sub_routers[r], 1) \o [i \in 1..cbs[r] |-> <<r, i>>]

\* Router.emit_startup / emit_shutdown of router r: the callbacks in the
\* order they are called, those of r, then those of each sub-router
EmitOrder(cbs, r) ==
    [i \in 1..cbs[r] |-> <<r, i>>] \o EmitSubs(cbs, sub_routers[r], 1)

\* `for sub in self._sub_routers: await sub.emit_*()` from the c-th on
EmitSubs(cbs, subs, c) ==
    IF c > Len(subs) THEN <<>>
    ELSE EmitOrder(cbs, subs[c]) \o EmitSubs(cbs, subs, c + 1)

\* the dispatcher's _running flag next to the loop
State(l, run) == [loop |-> l, running |-> run]

\* start_polling is through: it returned, or the exception l.exc left it
Leave(l, run) ==
    State([l EXCEPT !.phase = IF l.exc = None THEN "returned" ELSE "raised"], run)

\* an exception thrown at an await outside the try statement, or inside
\* its finally clause, leaves start_polling
Escape(l, run, e) == Leave([l EXCEPT !.exc = e], run)

\* the finally clause closing the bots whatever close_bot_on_stop says
CloseFromAlways(l, run) ==
    IF l.pos < Len(l.bots)
    THEN State([l EXCEPT !.phase = "close"], run)
    ELSE Leave(l, run)

\* finally: `if close_bot_on_stop: for bot in bots: await bot.close()`,
\* from the bot after the pos-th
CloseFrom(l, run) ==
    IF l.close_bot_on_stop /\ l.pos < Len(l.bots)
    THEN State([l EXCEPT !.phase = "close"], run)
    ELSE Leave(l, run)

\* finally: `await self.emit_shutdown()`, from the callback after the
\* hook-th
ShutdownFrom(l, run) ==
    IF l.hook < Len(EmitOrder(l.on_shutdown, Dispatcher))
    THEN State([l EXCEPT !.phase = "shutdown"], run)
    ELSE CloseFrom([l EXCEPT !.pos = 0], run)

\* the finally clause, with the exception to raise again after it
Finally(l, e) == ShutdownFrom([l EXCEPT !.hook = 0, !.exc = e], FALSE)

\* start_polling that creates the polling task of its first bot only
CreateTasksFirstOnly(l, run) ==
    IF l.bots = <<>> THEN Finally(l, None)
    ELSE State([l EXCEPT !.phase = "gather", !.outer = "pending", !.finishing = 0,
                         !.task = [b \in Bots |->
                                     IF l.bots[1] = b
                                     THEN [NoTask EXCEPT !.pc = "new"] ELSE NoTask],
                         !.ready = Append(@, Wake(l.bots[1]))],
               run)

\* `self._polling_tasks = [asyncio.create_task(...) for bot in bots]` and
\* `await asyncio.gather(*self._polling_tasks)`: the first step of every
\* task is scheduled; gather of no task is done at once
CreateTasks(l, run) ==
    IF l.bots = <<>> THEN Finally(l, None)
    ELSE State([l EXCEPT !.phase = "gather", !.outer = "pending", !.finishing = 0,
                         !.task = [b \in Bots |->
                                     IF \E i \in 1..Len(l.bots) : l.bots[i] = b
                                     THEN [NoTask EXCEPT !.pc = "new"] ELSE NoTask],
                         !.ready = @ \o [i \in 1..Len(l.bots) |-> Wake(l.bots[i])]],
               run)

\* `if skip_updates: for bot in bots: await bot.get_events(poll_time=0)`,
\* from the bot after the pos-th
SkipFrom(l, run) ==
    IF l.skip_updates /\ l.pos < Len(l.bots)
    THEN State([l EXCEPT !.phase = "skip", !.skipped = @ + 1], run)
    ELSE CreateTasks(l, run)

\* `await self.emit_startup()` from the callback after the hook-th, then
\* the signal handlers
StartupFrom(l, run) ==
    IF l.hook < Len(EmitOrder(l.on_startup, Dispatcher))
    THEN State([l EXCEPT !.phase = "startup"], run)
    ELSE SkipFrom([l EXCEPT !.signals = l.handle_signals, !.pos = 0], run)

\* start_polling goes on from the await it is suspended in: that await
\* gives its result ("result"), raises an Exception ("error"), or
\* CancelledError is thrown at it ("cancel")
MainStep(l, run, how) ==
    LET m == [l EXCEPT !.must_cancel = FALSE]
    IN  CASE l.phase = "startup" ->
               IF how = "cancel" THEN Escape(m, run, CancelledError)
               ELSE IF how = "error" THEN Escape(m, run, "Error")
               ELSE StartupFrom(
                        [m EXCEPT !.hook = @ + 1,
                                  !.hooks = Append(@, <<"startup">>
                                        \o EmitOrder(l.on_startup, Dispatcher)[l.hook + 1])],
                        run)
          [] l.phase = "skip" ->
               IF how = "cancel" THEN Finally(m, None)
               ELSE IF how = "error" THEN Finally(m, "Error")
               ELSE SkipFrom([m EXCEPT !.pos = @ + 1], run)
          [] l.phase = "gather" -> Finally(m, None)
          [] l.phase = "shutdown" ->
               IF how = "cancel" THEN Escape(m, run, CancelledError)
               ELSE ShutdownFrom(
                        [m EXCEPT !.hook = @ + 1,
                                  !.hooks = Append(@, <<"shutdown">>
                                        \o EmitOrder(l.on_shutdown, Dispatcher)[l.hook + 1])],
                        run)
          [] l.phase = "close" ->
               IF how = "cancel" THEN Escape(m, run, CancelledError)
               ELSE CloseFrom([m EXCEPT !.pos = @ + 1,
                                        !.closed = @ \cup {l.bots[l.pos + 1]}], run)
          [] OTHER -> State(l, run)

\* what a step of the lifecycle leaves: the loop, the flag and the history
Step(st, op, arg) ==
    /\ loop' = st.loop
    /\ running' = st.running
    /\ last' = [NoCall EXCEPT !.op = op, !.arg = arg]

\* the callbacks registered as lifecycle hooks over all routers
HookCount(cbs) == Sum(cbs, Routers)

\* router.on_startup(callback): self._on_startup.append(callback)
OnStartup(r, n) ==
    /\ loop.phase = "new"
    /\ r \in InTree
    /\ HookCount(loop.on_startup) < n
    /\ Step(State([loop EXCEPT !.on_startup[r] = @ + 1], running), "on_startup", <<r>>)
    /\ UNCHANGED <<sideVars, objects, fsm_strategy, graphVars, regVars, fsmVars, pending>>

\* router.on_shutdown(callback): self._on_shutdown.append(callback)
OnShutdown(r, n) ==
    /\ loop.phase = "new"
    /\ r \in InTree
    /\ HookCount(loop.on_shutdown) < n
    /\ Step(State([loop EXCEPT !.on_shutdown[r] = @ + 1], running), "on_shutdown", <<r>>)
    /\ UNCHANGED <<sideVars, objects, fsm_strategy, graphVars, regVars, fsmVars, pending>>

\* start_polling(*bots, skip_updates=, handle_signals=, close_bot_on_stop=)
\* up to its first await that suspends
StartPollingWith(bots, skip_updates, handle_signals, close_bot_on_stop) ==
    /\ loop.phase = "new"
    /\ Step(StartupFrom([loop EXCEPT !.bots = bots, !.skip_updates = skip_updates,
                                     !.handle_signals = handle_signals,
                                     !.close_bot_on_stop = close_bot_on_stop,
                                     !.hook = 0],
                        TRUE),
            "start_polling", <<bots>>)
    /\ UNCHANGED <<sideVars, objects, fsm_strategy, graphVars, regVars, fsmVars, pending>>

\* what happens outside the coroutines: an awaited operation completes and
\* the step of its task is scheduled, or the application or a signal has
\* stop, _stop_signal or a cancel of start_polling scheduled
Arrivals ==
    (IF loop.phase \in {"startup", "skip", "shutdown", "close"} THEN {Wake("main")} ELSE {})
        \cup {Wake(b) : b \in {c \in Bots : loop.task[c].pc \in {"get_events", "feed_update", "sleep"}}}
        \cup (IF loop.phase \in InProgress /\ ~loop.stopped THEN {Call("stop")} ELSE {})
        \cup (IF loop.phase \in InProgress /\ ~loop.stopped /\ loop.signals
              THEN {Call("signal")} ELSE {})
        \cup (IF loop.phase \in InProgress /\ ~loop.cancelled THEN {Call("cancel")} ELSE {})

Arrive(cb) ==
    /\ cb \in Arrivals
    /\ ~Queued(loop, cb)
    /\ cb.kind = "call" => \A f \in {"stop", "signal"} : ~Queued(loop, Call(f))
    /\ Step(State(CallSoon(loop, cb), running), "arrive", <<cb>>)
    /\ UNCHANGED <<sideVars, objects, fsm_strategy, graphVars, regVars, fsmVars, pending>>

\* the callback the event loop runs next, its place in the queue taken
Next1(cb) == loop.ready # <<>> /\ Head(loop.ready) = cb
Popped == [loop EXCEPT !.ready = Tail(@)]

\* how a suspended coroutine goes on: CancelledError when cancel() was
\* called on its task, else the result or the exception of what it awaits
Outcomes(must_cancel, results) == IF must_cancel THEN {"cancel"} ELSE results

\* a step of _polling(bot) from the start of the coroutine, from
\* `await bot.get_events()` or from `await asyncio.sleep(delay)`
PollingStep(b, updates, errors, polls) ==
    /\ Next1(Wake(b))
    /\ loop.task[b].pc \in {"new", "get_events", "sleep"}
    /\ \E how \in Outcomes(loop.task[b].must_cancel,
                           IF loop.task[b].pc = "get_events" THEN {"result", "error"}
                           ELSE {"result"}) :
          LET l == [Popped EXCEPT !.task[b].must_cancel = FALSE]
              pc == loop.task[b].pc
              m == CASE how = "cancel" ->
                          Ended(l, b, IF pc = "get_events" THEN "done" ELSE "cancelled")
                     [] how = "error" -> Backoff(l, b)
                     [] pc = "get_events" -> Received(l, b, running, updates)
                     [] OTHER -> WhileRunning(l, b, running)
          IN  /\ how # "result" \/ pc # "get_events" => updates = <<>>
              /\ m.task[b].consecutive_errors <= errors
              /\ m.task[b].polls <= polls
              /\ Step(State(m, running), "polling", <<b, pc, how, updates>>)
    /\ UNCHANGED <<sideVars, objects, fsm_strategy, graphVars, regVars, fsmVars, pending>>

\* a step of _polling(bot) from `await self.feed_update(bot, update)`
FeedStep(b, B, errors, polls) ==
    /\ Next1(Wake(b))
    /\ loop.task[b].pc = "feed_update"
    /\ \E x \in Resumed(Head(loop.task[b].pending), B, loop.task[b].must_cancel) :
          LET l == [Popped EXCEPT !.task[b].must_cancel = FALSE]
              m == AfterFeed(l, b, running, x.out)
          IN  /\ m.task[b].consecutive_errors <= errors
              /\ m.task[b].polls <= polls
              /\ loop' = m
              /\ storage' = x.storage
              /\ fsm_timestamps' = x.fsm_timestamps
              /\ now' = x.now
              /\ last' = [NoCall EXCEPT !.op = "feed", !.out = x.out, !.tr = x.tr,
                                        !.fsm = x.fsm,
                                        !.arg = <<b, Head(loop.task[b].pending),
                                                  loop.task[b].must_cancel>>]
    /\ UNCHANGED <<sideVars, objects, fsm_strategy, graphVars, regVars, session_timeout,
                   finished, idle, pollVars>>

\* a step of start_polling from the await it is suspended in
MainRun ==
    /\ Next1(Wake("main"))
    /\ \E how \in Outcomes(loop.must_cancel,
                           IF loop.phase \in {"startup", "skip"} THEN {"result", "error"}
                           ELSE {"result"}) :
          Step(MainStep(Popped, running, how), "start_polling_step", <<loop.phase, how>>)
    /\ UNCHANGED <<sideVars, objects, fsm_strategy, graphVars, regVars, fsmVars, pending>>

\* gather's done callback for a polling task that ended
GatherRun(b) ==
    /\ Next1(DoneCallback(b))
    /\ Step(State(GatherDone(Popped, b), running), "gather_done", <<b>>)
    /\ UNCHANGED <<sideVars, objects, fsm_strategy, graphVars, regVars, fsmVars, pending>>

\* stop() and _stop_signal(): self._running = False, then every polling
\* task is cancelled
StopRun(f) ==
    /\ f \in {"stop", "signal"}
    /\ Next1(Call(f))
    /\ Step(State([CancelFrom(Popped, 1) EXCEPT !.stopped = TRUE,
                                                !.stopped_in = loop.phase],
                   FALSE),
            f, <<>>)
    /\ UNCHANGED <<sideVars, objects, fsm_strategy, graphVars, regVars, fsmVars, pending>>

\* the task that runs start_polling is cancelled
CancelRun ==
    /\ Next1(Call("cancel"))
    /\ Step(State(MainCancel(Popped), running), "cancel", <<>>)
    /\ UNCHANGED <<sideVars, objects, fsm_strategy, graphVars, regVars, fsmVars, pending>>

\* One bot polled by a dispatcher without handlers: its polls fail or
\* give a batch, in which a payload may not validate.
MaxErrors == 7
MaxPolls == 9

BackoffUpdates == {Update("newMessage", TRUE, "c1", "u1"), Update("newMessage", FALSE, "c1", "u1")}
BackoffBatches == {<<>>} \cup {<<u>> : u \in BackoffUpdates}
BackoffB == [message |-> {Behaviour(<<FTrue>>, "A", "keep")},
             error |-> {Behaviour(<<FTrue>>, "A", "keep")}, mw |-> {"next"}]

NextBackoff ==
    \/ \E c \in BOOLEAN : StartPollingWith(<<"b1">>, FALSE, TRUE, c)
    \/ \E cb \in Arrivals : Arrive(cb)
    \/ \E updates \in BackoffBatches : PollingStep("b1", updates, MaxErrors, MaxPolls)
    \/ FeedStep("b1", BackoffB, MaxErrors, MaxPolls)
    \/ MainRun
    \/ GatherRun("b1")
    \/ \E f \in {"stop", "signal"} : StopRun(f)
    \/ CancelRun

SpecBackoff == Init /\ [][NextBackoff]_vars

\* A dispatcher with a handler for messages and one for errors, an
\* ErrorsMiddleware, a startup and a shutdown hook polls no, one or two
\* bots.  A handler returns, raises, or is awaiting when its task is
\* cancelled.
MaxRetries == 1
MaxRounds == 2

BotLists == {<<>>, <<"b1">>, <<"b1", "b2">>}

FirstUpdate == Update("newMessage", TRUE, "c1", "u1")
SecondUpdate == Update("newMessage", TRUE, "c1", "u2")
LifecycleBatches == {<<>>, <<FirstUpdate>>}
FeedingBatches ==
    {<<>>, <<FirstUpdate, SecondUpdate>>, <<Update("newMessage", FALSE, "c1", "u1")>>,
     <<Update("unknown", TRUE, "c1", "u1"), FirstUpdate>>}

LifecycleB ==
    [message |-> {Behaviour(<<FTrue>>, c, "keep") : c \in {"A", "Error", CancelledError}},
     error |-> {Behaviour(<<FTrue>>, c, "keep") : c \in {"A", CancelledError}},
     mw |-> {"next"}]

\* the registrations the application makes before it starts polling
Configured ==
    /\ \A c \in Categories : handlers[Dispatcher][c] = 1
    /\ middlewares[Dispatcher]["message"] = <<"errors">>
    /\ HookCount(loop.on_startup) = 1
    /\ HookCount(loop.on_shutdown) = 1

NextLifecycle ==
    \/ \E c \in Categories :
          loop.phase = "new" /\ handlers[Dispatcher][c] = 0 /\ Register(Dispatcher, c)
    \/ loop.phase = "new" /\ RegisterMiddleware(Dispatcher, "message", "errors")
    \/ OnStartup(Dispatcher, 1)
    \/ OnShutdown(Dispatcher, 1)
    \/ \E bots \in BotLists, s \in BOOLEAN, h \in BOOLEAN, c \in BOOLEAN :
          Configured /\ StartPollingWith(bots, s, h, c)
    \/ \E cb \in Arrivals : Arrive(cb)
    \/ \E b \in Bots, updates \in LifecycleBatches :
          PollingStep(b, updates, MaxRetries, MaxRounds)
    \/ \E b \in Bots : FeedStep(b, LifecycleB, MaxRetries, MaxRounds)
    \/ MainRun
    \/ \E b \in Bots : GatherRun(b)
    \/ \E f \in {"stop", "signal"} : StopRun(f)
    \/ CancelRun

SpecLifecycle == Init /\ [][NextLifecycle]_vars

\* Routers are wired below the dispatcher ("r1" before "r2") and lifecycle
\* callbacks are registered on them (on a router no more shutdown than
\* startup callbacks); then the dispatcher polls no bot or two bots, whose
\* polls give nothing, and is stopped or cancelled.
MaxHooks == 3
HookRetries == 0
HookRounds == 1

NextHooks ==
    \/ \E parent \in Routers, child \in Routers :
          /\ loop.phase = "new"
          /\ child = "r2" => "r1" \in InTree
          /\ Wire(parent, child)
    \/ \E r \in Routers : OnStartup(r, MaxHooks)
    \/ \E r \in Routers : loop.on_shutdown[r] < loop.on_startup[r] /\ OnShutdown(r, MaxHooks)
    \/ \E bots \in {<<>>, <<"b1", "b2">>}, s \in BOOLEAN, c \in BOOLEAN :
          StartPollingWith(bots, s, TRUE, c)
    \/ \E cb \in Arrivals : Arrive(cb)
    \/ \E b \in Bots : PollingStep(b, <<>>, HookRetries, HookRounds)
    \/ MainRun
    \/ \E b \in Bots : GatherRun(b)
    \/ \E f \in {"stop", "signal"} : StopRun(f)
    \/ CancelRun

SpecHooks == Init /\ [][NextHooks]_vars

\* A dispatcher with a message handler and a shutdown hook polls two bots
\* until stop() or a signal arrives.
StopB == [message |-> {Behaviour(<<FTrue>>, c, "keep") : c \in {"A", CancelledError}},
          error |-> {}, mw |-> {"next"}]

NextStop ==
    \/ loop.phase = "new" /\ handlers[Dispatcher]["message"] = 0
          /\ Register(Dispatcher, "message")
    \/ OnShutdown(Dispatcher, 1)
    \/ \E c \in BOOLEAN :
          /\ handlers[Dispatcher]["message"] = 1
          /\ HookCount(loop.on_shutdown) = 1
          /\ StartPollingWith(<<"b1", "b2">>, FALSE, TRUE, c)
    \/ \E cb \in Arrivals : Arrive(cb)
    \/ \E b \in Bots, updates \in LifecycleBatches :
          PollingStep(b, updates, MaxRetries, MaxRounds)
    \/ \E b \in Bots : FeedStep(b, StopB, MaxRetries, MaxRounds)
    \/ MainRun
    \/ \E b \in Bots : GatherRun(b)
    \/ \E f \in {"stop", "signal"} : StopRun(f)
    \/ CancelRun

SpecStop == Init /\ [][NextStop]_vars

\* The event loop runs every callback of its ready queue, and what
\* start_polling itself awaits comes to an end: a lifecycle callback,
\* bot.close().  Nothing is assumed of what the polling tasks await.
FairStop ==
    /\ SpecStop
    /\ WF_vars(MainRun)
    /\ WF_vars(CancelRun)
    /\ WF_vars(\E f \in {"stop", "signal"} : StopRun(f))
    /\ WF_vars(\E b \in Bots : GatherRun(b))
    /\ WF_vars(\E b \in Bots, updates \in LifecycleBatches :
                  PollingStep(b, updates, MaxRetries, MaxRounds))
    /\ WF_vars(\E b \in Bots : FeedStep(b, StopB, MaxRetries, MaxRounds))
    /\ WF_vars(Arrive(Wake("main")))

\* A dispatcher with a message handler polls two bots, whose polls give
\* batches of two updates, of an update of unknown type and a message, and
\* of a payload that does not validate.
FeedingB == [message |-> {Behaviour(<<FTrue>>, c, "keep") : c \in {"A", "Error", CancelledError}},
             error |-> {}, mw |-> {"next"}]

NextFeeding ==
    \/ loop.phase = "new" /\ handlers[Dispatcher]["message"] = 0
          /\ Register(Dispatcher, "message")
    \/ handlers[Dispatcher]["message"] = 1 /\ StartPollingWith(<<"b1", "b2">>, FALSE, TRUE, TRUE)
    \/ \E cb \in Arrivals : Arrive(cb)
    \/ \E b \in Bots, updates \in FeedingBatches :
          PollingStep(b, updates, MaxRetries, MaxRounds)
    \/ \E b \in Bots : FeedStep(b, FeedingB, MaxRetries, MaxRounds)
    \/ MainRun
    \/ \E b \in Bots : GatherRun(b)
    \/ \E f \in {"stop", "signal"} : StopRun(f)
    \/ CancelRun

SpecFeeding == Init /\ [][NextFeeding]_vars

\* The event loop runs every callback of its ready queue.
FairFeeding ==
    /\ SpecFeeding
    /\ WF_vars(MainRun)
    /\ WF_vars(CancelRun)
    /\ WF_vars(\E f \in {"stop", "signal"} : StopRun(f))
    /\ WF_vars(\E b \in Bots : GatherRun(b))
    /\ WF_vars(\E b \in Bots, updates \in FeedingBatches :
                  PollingStep(b, updates, MaxRetries, MaxRounds))
    /\ WF_vars(\E b \in Bots : FeedStep(b, FeedingB, MaxRetries, MaxRounds))

\* One bot whose batches have two updates, the first of which may carry a
\* payload that does not validate.
DroppedBatches ==
    {<<>>, <<FirstUpdate, SecondUpdate>>, <<Update("newMessage", FALSE, "c1", "u1"), SecondUpdate>>}

NextDropped ==
    \/ \E c \in BOOLEAN : StartPollingWith(<<"b1">>, FALSE, TRUE, c)
    \/ \E cb \in Arrivals : Arrive(cb)
    \/ \E updates \in DroppedBatches : PollingStep("b1", updates, MaxRetries, MaxRounds)
    \/ FeedStep("b1", BackoffB, MaxRetries, MaxRounds)
    \/ MainRun
    \/ GatherRun("b1")
    \/ \E f \in {"stop", "signal"} : StopRun(f)
    \/ CancelRun

SpecDropped == Init /\ [][NextDropped]_vars

(***************************************************************************)
(* RedisListener: _read_loop and _pending_loop of one stream, as two tasks *)
(* of one consumer, and the Redis commands they await.  A step runs a      *)
(* coroutine from the await it is suspended in to its next await; the      *)
(* commands complete (a lost connection is not followed).  No validation   *)
(* model is given to the handler (model=None).                             *)
(***************************************************************************)
StreamTasks == {"read", "pend"}

\* the task t of listener l
TaskOf(l, t) == IF t = "read" THEN l.read ELSE l.pend
WithTask(l, t, v) == IF t = "read" THEN [l EXCEPT !.read = v] ELSE [l EXCEPT !.pend = v]
At(l, t, pc) == WithTask(l, t, [TaskOf(l, t) EXCEPT !.pc = pc])
Rest(l, t) == WithTask(l, t, [TaskOf(l, t) EXCEPT !.batch = Tail(@)])

\* the message the task has in hand
InHand(l, t) ==
    LET e == Head(TaskOf(l, t).batch) IN IF t = "read" THEN e ELSE e.message_id

\* XACK stream group id: the entry leaves the pending entries list
Xack(l, m) ==
    IF m \in l.pel
    THEN [l EXCEPT !.pel = @ \ {m}, !.idle = @ \ {m}, !.acked = @ \cup {m}]
    ELSE l

\* XREADGROUP group consumer STREAMS stream ">": the messages of the
\* stream never delivered to the group, in stream order; each enters the
\* pending entries list, delivered once
NeverDelivered(l) == SelectSeq(l.stream, LAMBDA m : l.times_delivered[m] = 0)
XReadGroup(l) ==
    LET new == {NeverDelivered(l)[i] : i \in 1..Len(NeverDelivered(l))}
    IN  [l EXCEPT !.pel = @ \cup new, !.idle = @ \ new,
                  !.times_delivered = [m \in Messages |-> IF m \in new THEN 1 ELSE @[m]]]

\* XPENDING stream group - + count consumer: the pending entries
XPendingRange(l) ==
    LET ids == SelectSeq(l.stream, LAMBDA m : m \in l.pel)
    IN  [i \in 1..Len(ids) |->
            [message_id |-> ids[i], times_delivered |-> l.times_delivered[ids[i]],
             idle |-> ids[i] \in l.idle]]

\* XCLAIM stream group consumer min-idle-time id: a pending entry idle for
\* min-idle-time is delivered once more; another id is not claimed
Claimable(l, m) == m \in l.pel /\ m \in l.idle
XClaim(l, m) ==
    IF Claimable(l, m)
    THEN [l EXCEPT !.times_delivered[m] = @ + 1, !.idle = @ \ {m}]
    ELSE l

\* `while self._running:` of either loop: _read_loop awaits xreadgroup,
\* _pending_loop awaits asyncio.sleep(self.retry_after)
WhileListening(l, t) ==
    IF l.running THEN At(l, t, IF t = "read" THEN "xreadgroup" ELSE "sleep")
    ELSE At(l, t, "done")

\* _process_message up to `await func(self.bot, validated)`
ProcessMessage(l, t) == At([l EXCEPT !.calls[InHand(l, t)] = @ + 1], t, "handler")

\* _read_loop: `for msg_id, fields in messages` from the message in hand
ReadFrom(l) ==
    IF l.read.batch = <<>> THEN WhileListening(l, "read")
    ELSE ProcessMessage(l, "read")

\* _pending_loop: `for entry in pending` from the entry in hand, up to the
\* next await
RECURSIVE PendFrom(_)
PendFrom(l) ==
    IF l.pend.batch = <<>> THEN WhileListening(l, "pend")
    ELSE LET entry == Head(l.pend.batch)
         IN  IF ~entry.idle THEN PendFrom(Rest(l, "pend"))
             ELSE IF entry.times_delivered > l.max_retries THEN At(l, "pend", "xrange")
             ELSE At(l, "pend", "xclaim")

\* the loop of task t goes on with what follows the message in hand
NextMessage(l, t) == IF t = "read" THEN ReadFrom(Rest(l, t)) ELSE PendFrom(Rest(l, t))

\* _process_message after `await func(...)`: on to `await redis.xack(...)`,
\* or `except Exception` and back to the loop
AfterHandler(l, t, outcome) ==
    IF outcome = "return"
    THEN At([l EXCEPT !.returned = @ \cup {InHand(l, t)}], t, "xack")
    ELSE NextMessage(l, t)

\* the step of task t from the await it is suspended in
StreamStep(l, t, outcome) ==
    LET pc == TaskOf(l, t).pc
    IN  CASE pc = "xreadgroup" ->
                ReadFrom([XReadGroup(l) EXCEPT !.read.batch = NeverDelivered(l)])
          [] pc = "sleep" ->
                IF l.running THEN At(l, t, "xpending") ELSE At(l, t, "done")
          [] pc = "xpending" -> PendFrom([l EXCEPT !.pend.batch = XPendingRange(l)])
          [] pc = "xrange" -> At(l, t, "xadd")
          [] pc = "xadd" ->
                At([l EXCEPT !.dead = Append(@, InHand(l, t))], t, "xack_dead")
          [] pc = "xack_dead" -> NextMessage(Xack(l, InHand(l, t)), t)
          [] pc = "xclaim" ->
                IF Claimable(l, InHand(l, t))
                THEN ProcessMessage(XClaim(l, InHand(l, t)), t)
                ELSE NextMessage(l, t)
          [] pc = "handler" -> AfterHandler(l, t, outcome)
          [] pc = "xack" -> NextMessage(Xack(l, InHand(l, t)), t)
          [] OTHER -> l

ListenerDoes(l, op, arg) ==
    /\ listener' = l
    /\ last' = [NoCall EXCEPT !.op = op, !.arg = arg]
    /\ UNCHANGED <<coreVars, scheduler, writers>>

\* RedisListener(..., max_retries=n) and start(): the two tasks of the
\* stream are created
ListenerStart(n) ==
    /\ listener = NoListener
    /\ ListenerDoes([listener EXCEPT !.running = TRUE, !.max_retries = n,
                                     !.read.pc = "xreadgroup", !.pend.pc = "sleep"],
                    "start", <<n>>)

\* a producer: XADD stream * fields
Xadd(m) ==
    /\ listener.running
    /\ \A i \in 1..Len(listener.stream) : listener.stream[i] # m
    /\ ListenerDoes([listener EXCEPT !.stream = Append(@, m)], "xadd", <<m>>)

\* time passes: a pending entry has been idle for retry_after
Elapse(m) ==
    /\ m \in listener.pel \ listener.idle
    /\ ListenerDoes([listener EXCEPT !.idle = @ \cup {m}], "elapse", <<m>>)

\* what task t awaits completes and the task runs to its next await
StreamTaskStep(t, outcome) ==
    /\ TaskOf(listener, t).pc \notin {"none", "done"}
    /\ outcome = "raise" => TaskOf(listener, t).pc = "handler"
    /\ ListenerDoes(StreamStep(listener, t, outcome), "stream_step",
                    <<t, TaskOf(listener, t).pc, outcome>>)

\* RedisListener.stop(): self._running = False
ListenerStop ==
    /\ listener.running
    /\ ListenerDoes([listener EXCEPT !.running = FALSE], "listener_stop", <<>>)

\* One consumer of one stream: messages are added, the handler returns or
\* raises, time passes, and the listener is stopped at some time or never.
MaxMaxRetries == 2

NextListener ==
    \/ \E n \in 1..MaxMaxRetries : ListenerStart(n)
    \/ \E m \in Messages : Xadd(m)
    \/ \E m \in Messages : Elapse(m)
    \/ \E t \in StreamTasks, outcome \in {"return", "raise"} : StreamTaskStep(t, outcome)
    \/ ListenerStop

SpecListener == Init /\ [][NextListener]_vars

(***************************************************************************)
(* Reading a trace.                                                        *)
(***************************************************************************)
ReturnValues == {None, "A", "M"}
\* the call produced a result: it returned, and not the UNHANDLED sentinel
Handled(out) == out.kind = "return" /\ out.val # UNHANDLED
\* a filter result that lets the handler match
Passes(res) == res \in {"True", "Truthy", "Dict", "None"}

IsProbe(e) == e.op \in {"filter", "call"}
SameHandler(e, f) == e.r = f.r /\ e.cat = f.cat /\ e.i = f.i

RECURSIVE PreOrder(_)
RECURSIVE PreOrderAll(_)
\* the routers of r's subtree: r, then each child's subtree in registration order
PreOrder(r) == <<r>> \o PreOrderAll(sub_routers[r])
PreOrderAll(rs) == IF rs = <<>> THEN <<>> ELSE PreOrder(Head(rs)) \o PreOrderAll(Tail(rs))

Position(seq, x) == CHOOSE k \in 1..Len(seq) : seq[k] = x

\* handler e comes before handler f in the pre-order of root's subtree
Before(root, e, f) ==
    LET order == PreOrder(root)
    IN  \/ Position(order, e.r) < Position(order, f.r)
        \/ e.r = f.r /\ e.i < f.i

\* in the trace, handler (r, cat, i) was probed and did not match
NoMatch(tr, r, cat, i) ==
    /\ \E k \in 1..Len(tr) : /\ tr[k].op = "filter" /\ ~Passes(tr[k].res)
                              /\ tr[k].r = r /\ tr[k].cat = cat /\ tr[k].i = i
    /\ \A k \in 1..Len(tr) : ~(/\ tr[k].op = "call"
                                /\ tr[k].r = r /\ tr[k].cat = cat /\ tr[k].i = i)

\* in the trace, the callback of handler (r, cat, i) raised exc
Raised(tr, r, cat, i, exc) ==
    \E k \in 1..Len(tr) : /\ tr[k].op = "call" /\ tr[k].res = exc
                          /\ tr[k].r = r /\ tr[k].cat = cat /\ tr[k].i = i

(***************************************************************************)
(* Claims about EventObserver.trigger and Router.propagate_event.          *)
(***************************************************************************)
\* C1: trigger probes the handlers in registration order, each one's filters
\* before its callback; a result it returns is the result of the last
\* callback it called, that handler's filters matched, every handler
\* registered before it was probed and either did not match or raised
\* SkipHandler, and no filter or callback of a later handler was evaluated.
C1_FirstMatchWins ==
    last.op = "trigger" =>
        LET tr == last.tr
            n == Len(tr)
        IN  /\ \A k \in 1..n : /\ IsProbe(tr[k])
                                /\ tr[k].r = last.r /\ tr[k].cat = last.arg[1]
                                /\ tr[k].i \in 1..handlers[last.r][last.arg[1]]
            /\ \A k \in 1..(n - 1) :
                    /\ tr[k].i <= tr[k + 1].i
                    /\ tr[k].i = tr[k + 1].i => tr[k].op = "filter"
            /\ \A k \in 1..n :
                    tr[k].op = "call" /\ tr[k].res \in ReturnValues =>
                        k = n /\ last.out = Return(tr[k].res)
            /\ Handled(last.out) =>
                    /\ n > 0 /\ tr[n].op = "call" /\ tr[n].res = last.out.val
                    /\ \A k \in 1..n :
                            tr[k].op = "filter" /\ tr[k].i = tr[n].i => Passes(tr[k].res)
                    /\ \A i \in 1..(tr[n].i - 1) :
                            \/ NoMatch(tr, last.r, last.arg[1], i)
                            \/ Raised(tr, last.r, last.arg[1], i, SkipHandler)

\* a trigger call over three handlers: the first does not match, the second
\* matches and returns, the third is never probed
C1_Witness ==
    /\ last.op = "trigger"
    /\ handlers[last.r]["message"] = 3
    /\ Handled(last.out)
    /\ last.tr[Len(last.tr)].i = 2
    /\ NoMatch(last.tr, last.r, "message", 1)

\* handler (r, cat, i) was not probed because a handler registered before it
\* on the same observer raised CancelHandler
CutOff(tr, r, cat, i) ==
    /\ \A k \in 1..Len(tr) : ~(IsProbe(tr[k]) /\ tr[k].r = r /\ tr[k].cat = cat /\ tr[k].i = i)
    /\ \E h \in 1..(i - 1) : Raised(tr, r, cat, h, CancelHandler)

\* handler (r, cat, i) was probed and produced no result, or was cut off
NoResult(tr, r, cat, i) ==
    \/ NoMatch(tr, r, cat, i)
    \/ Raised(tr, r, cat, i, SkipHandler)
    \/ Raised(tr, r, cat, i, CancelHandler)
    \/ CutOff(tr, r, cat, i)

\* C2: without middlewares propagate_event probes the handlers of the
\* router's subtree in pre-order.  A callback that returns a value, None
\* included, ends the call with that value and nothing is evaluated after
\* it; every handler before it in pre-order produced no result (it did not
\* match, raised SkipHandler or CancelHandler, or was cut off by a
\* CancelHandler of its observer); UNHANDLED is returned only when every
\* handler of the subtree produced no result.
C2_PreOrderFirstResult ==
    last.op = "propagate_event" =>
        LET tr == last.tr
            n == Len(tr)
            cat == last.arg[1]
            order == PreOrder(last.r)
            InOrder(e) == \E p \in 1..Len(order) : order[p] = e.r
        IN  /\ \A k \in 1..n : InOrder(tr[k]) /\ tr[k].cat = cat
            /\ \A k, l \in 1..n :
                    k < l /\ IsProbe(tr[k]) /\ IsProbe(tr[l]) =>
                        ~Before(last.r, tr[l], tr[k])
            /\ \A k \in 1..n :
                    tr[k].op = "call" /\ tr[k].res \in ReturnValues =>
                        k = n /\ last.out = Return(tr[k].res)
            /\ Handled(last.out) =>
                    /\ n > 0 /\ tr[n].op = "call" /\ tr[n].res = last.out.val
                    /\ \A k \in 1..n :
                            tr[k].op = "filter" /\ SameHandler(tr[k], tr[n]) =>
                                Passes(tr[k].res)
                    /\ \A p \in 1..Len(order) :
                            \A i \in 1..handlers[order[p]][cat] :
                                Before(last.r, [r |-> order[p], i |-> i], tr[n]) =>
                                    NoResult(tr, order[p], cat, i)
            /\ last.out = Return(UNHANDLED) =>
                    \A p \in 1..Len(order) :
                        \A i \in 1..handlers[order[p]][cat] :
                            NoResult(tr, order[p], cat, i)

\* propagate_event on the dispatcher: its own handler produces no result,
\* the first child's handler returns None, which ends the call; the handler
\* of the second child is never probed
C2_Witness ==
    /\ last.op = "propagate_event" /\ last.r = Dispatcher
    /\ sub_routers[Dispatcher] = <<"r1", "r2">>
    /\ handlers[Dispatcher]["message"] = 1
    /\ handlers["r1"]["message"] = 1
    /\ handlers["r2"]["message"] = 1
    /\ last.out = Return(None)
    /\ last.tr[Len(last.tr)].r = "r1"

\* C4: when a callback of router R raises CancelHandler, no later handler of
\* that observer is probed and the signal does not leave propagate_event as
\* an exception; the propagation goes on with the router that follows R in
\* pre-order (R's first child, else the next sibling of R or of an
\* ancestor), and without one the call returns UNHANDLED.
C4_CancelEndsObserverOnly ==
    last.op = "propagate_event" =>
        LET tr == last.tr
            n == Len(tr)
            order == PreOrder(last.r)
        IN  /\ last.out # Raise(CancelHandler)
            /\ \A k \in 1..n :
                    tr[k].op = "call" /\ tr[k].res = CancelHandler =>
                        /\ \A l \in (k + 1)..n :
                                ~(IsProbe(tr[l]) /\ tr[l].r = tr[k].r /\ tr[l].cat = tr[k].cat)
                        /\ IF Position(order, tr[k].r) < Len(order)
                           THEN /\ k < n
                                /\ tr[k + 1].op = "propagate"
                                /\ tr[k + 1].r = order[Position(order, tr[k].r) + 1]
                           ELSE k = n /\ last.out = Return(UNHANDLED)

\* the first handler of r1 raises CancelHandler, its second handler is not
\* probed, and the handler of r1's later sibling r2 returns a value
C4_Witness ==
    /\ last.op = "propagate_event" /\ last.r = Dispatcher
    /\ sub_routers[Dispatcher] = <<"r1", "r2">>
    /\ handlers["r1"]["message"] = 2
    /\ Raised(last.tr, "r1", "message", 1, CancelHandler)
    /\ last.out = Return("A")
    /\ last.tr[Len(last.tr)].r = "r2"

\* the kwargs trigger was entered with for the handler of event tr[k]: those
\* of the first filter event of that handler
EntryKwargs(tr, k) ==
    LET first == CHOOSE l \in 1..k :
                    /\ SameHandler(tr[l], tr[k]) /\ tr[l].ev = tr[k].ev
                    /\ tr[l].op = "filter" /\ tr[l].j = 1
                    /\ \A m \in (l + 1)..k : ~(tr[m].op = "propagate" /\ tr[m].r = tr[k].r)
    IN  tr[first].kwargs

\* C3: when a matching handler raises SkipHandler, the observer goes on with
\* the next registered handler, which is checked with the kwargs the
\* skipping handler was checked with (after the last handler the observer
\* is done and no handler of it is probed again); the signal never leaves
\* the call as an exception and is never dispatched under the "error"
\* category, with or without ErrorsMiddleware on the observer.
C3_SkipGoesOnNoError ==
    last.op \in {"propagate_event", "feed_update"} =>
        LET tr == last.tr
            n == Len(tr)
        IN  /\ last.out # Raise(SkipHandler)
            /\ \A k \in 1..Len(last.fsm.errors) : last.fsm.errors[k] # SkipHandler
            /\ \A k \in 1..n : tr[k].cat = "error" => tr[k].ev # SkipHandler
            /\ \A k \in 1..n :
                    tr[k].op = "call" /\ tr[k].res = SkipHandler =>
                        IF tr[k].i < handlers[tr[k].r][tr[k].cat]
                        THEN /\ k < n
                             /\ tr[k + 1].op = "filter" /\ tr[k + 1].j = 1
                             /\ tr[k + 1].r = tr[k].r /\ tr[k + 1].cat = tr[k].cat
                             /\ tr[k + 1].i = tr[k].i + 1
                             /\ tr[k + 1].ev = tr[k].ev
                             /\ tr[k + 1].kwargs = EntryKwargs(tr, k)
                        ELSE k < n => ~(IsProbe(tr[k + 1]) /\ tr[k + 1].r = tr[k].r
                                                           /\ tr[k + 1].cat = tr[k].cat)

\* feed_update with ErrorsMiddleware on the dispatcher's "message" observer
\* and an error handler registered: the first message handler raises
\* SkipHandler, the second returns a value, no error handler is probed
C3_Witness ==
    /\ last.op = "feed_update"
    /\ middlewares[Dispatcher]["message"] = <<"errors">>
    /\ handlers[Dispatcher]["error"] = 1
    /\ handlers[Dispatcher]["message"] = 2
    /\ Raised(last.tr, Dispatcher, "message", 1, SkipHandler)
    /\ last.out = Return("A")
    /\ last.tr[Len(last.tr)].i = 2
    /\ \A k \in 1..Len(last.tr) : last.tr[k].cat = "message"

(***************************************************************************)
(* Claims about Dispatcher.feed_update and the polling loop.               *)
(***************************************************************************)
\* the update the last poll_feed step fed
Fed == Head(last.arg)
\* where in the trace the dispatcher was entered with exception e as an
\* "error" event
ErrorPropagations(tr, e) ==
    {k \in 1..Len(tr) : /\ tr[k].op = "propagate" /\ tr[k].r = Dispatcher
                         /\ tr[k].cat = "error" /\ tr[k].ev = e}
\* the last of them: the dispatch feed_update made
OwnPropagation(tr, e) ==
    CHOOSE k \in ErrorPropagations(tr, e) : \A l \in ErrorPropagations(tr, e) : l <= k

\* C5: feed_update of an update whose type is known and whose payload
\* validates never raises, whatever middlewares, filters and callbacks
\* raise.  When the dispatch of the update raised, the exception is
\* dispatched once as an "error" event (ErrorsMiddleware on the observer
\* makes a dispatch of its own before); the result is what that dispatch
\* returned, and UNHANDLED when it raised too.  The polling loop is still
\* running and has the rest of the batch to feed.
C5_FeedUpdateNeverRaises ==
    last.op = "poll_feed" /\ Fed.type # "unknown" /\ Fed.valid =>
        LET tr == last.tr
            n == Len(tr)
            f == last.fsm
            ownErrors == \E j \in 1..Len(middlewares[Dispatcher]["message"]) :
                            middlewares[Dispatcher]["message"][j] = "errors"
        IN  /\ last.out.kind = "return"
            /\ running /\ pending = Tail(last.arg)
            /\ f.main.kind = "return" =>
                    /\ last.out = f.main /\ f.errors = <<>> /\ ~f.early
                    /\ \A k \in 1..n : tr[k].cat = "error" => ownErrors
            /\ f.main.kind = "raise" =>
                    /\ f.errors = <<f.main.val>>
                    /\ ErrorPropagations(tr, f.main.val) # {}
                    /\ ~ownErrors => Cardinality(ErrorPropagations(tr, f.main.val)) = 1
                    /\ f.early => last.out = Return(UNHANDLED)
                    /\ Handled(last.out) =>
                            \E k \in (OwnPropagation(tr, f.main.val) + 1)..n :
                                /\ tr[k].cat = "error"
                                /\ \/ tr[k].op = "call" /\ tr[k].res = last.out.val
                                   \/ tr[k].op = "enter" /\ last.out.val = "M"
                                /\ \A l \in (k + 1)..n : tr[l].op = "exit"
                    /\ last.out = Return(UNHANDLED) /\ ~f.early =>
                            \A k \in (OwnPropagation(tr, f.main.val) + 1)..n :
                                /\ tr[k].op = "call" =>
                                        tr[k].res \in {SkipHandler, CancelHandler}
                                /\ tr[k].op # "enter" \/ k < n

\* the first update of a batch of two: its handler raises, the error handler
\* raises as well, feed_update returns UNHANDLED and the loop has the second
\* update left to feed
C5_Witness ==
    /\ last.op = "poll_feed" /\ Len(last.arg) = 2
    /\ last.fsm.main = Raise("Error")
    /\ Raised(last.tr, Dispatcher, "error", 1, "Error")
    /\ last.fsm.early
    /\ last.out = Return(UNHANDLED)
    /\ running /\ Len(pending) = 1

(***************************************************************************)
(* Claims about the session timeout.                                       *)
(***************************************************************************)
\* the record feed_update found under its key
Record0 == [state |-> last.fsm.state0, data |-> last.fsm.data0]
\* the last step fed an update that has a key
KeyedFeed == last.op = "poll_feed" /\ last.fsm.key # NoKey

\* C6: feed_update clears the record of the key and drops its timestamp
\* exactly when a session timeout is configured, the stored state is not
\* None, the key has a timestamp and more than session_timeout has passed
\* since it.  The clearing comes before the dispatch: every filter and
\* callback is passed current_state None and the callbacks work on the
\* empty record.  Otherwise they get the stored state and work on the
\* stored record; without session timeout that is always so.
C6_EvictionIffExpired ==
    KeyedFeed =>
        LET f == last.fsm
            tr == last.tr
        IN  /\ f.evicted <=>
                    /\ session_timeout # Nothing
                    /\ f.state0 # None
                    /\ f.stamp0 # Nothing
                    /\ f.start - f.stamp0[1] > session_timeout[1]
            /\ f.evicted =>
                    /\ \A k \in 1..Len(tr) : tr[k].kwargs.current_state = None
                    /\ storage[f.key] = ApplyEffects(tr, StorageRecord)
                    /\ f.key \in DOMAIN fsm_timestamps =>
                            /\ storage[f.key].state # None
                            /\ fsm_timestamps[f.key] = f.finish
            /\ ~f.evicted =>
                    /\ \A k \in 1..Len(tr) : tr[k].kwargs.current_state = f.state0
                    /\ storage[f.key] = ApplyEffects(tr, Record0)
            /\ session_timeout = Nothing => fsm_timestamps = [k \in {} |-> 0]

\* a record with a state and a data field, stamped more than
\* session_timeout ago, is cleared; the handler is called with
\* current_state None and leaves the record empty and unstamped
C6_Witness ==
    /\ KeyedFeed /\ last.fsm.evicted
    /\ last.fsm.state0 = FormName /\ last.fsm.data0 # EmptyData
    /\ \E k \in 1..Len(last.tr) :
            last.tr[k].op = "call" /\ last.tr[k].kwargs.current_state = None
    /\ storage[last.fsm.key] = StorageRecord
    /\ last.fsm.key \notin DOMAIN fsm_timestamps

\* C7: a feed_update that finds a state and starts no later than
\* session_timeout after the previous feed_update for the key returned does
\* not clear the record.
C7_NoEvictionWhileActive ==
    /\ KeyedFeed /\ session_timeout # Nothing
    /\ idle # Nothing /\ last.fsm.state0 # None
    => (idle[1] <= session_timeout[1] => ~last.fsm.evicted)

\* C8: with session timeout, when feed_update gets past its dispatch (the
\* dispatch of the update returned, or the "error" dispatch of its
\* exception did), the key is stamped with the time of the return if the
\* stored state is not None, and has no timestamp if it is None.
C8_StampFollowsState ==
    KeyedFeed /\ session_timeout # Nothing /\ ~last.fsm.early =>
        LET key == last.fsm.key
        IN  IF storage[key].state # None
            THEN key \in DOMAIN fsm_timestamps /\ fsm_timestamps[key] = last.fsm.finish
            ELSE key \notin DOMAIN fsm_timestamps

\* the handler clears a stamped record that has not timed out: the key has
\* no timestamp afterwards
C8_Witness ==
    /\ KeyedFeed /\ session_timeout # Nothing /\ ~last.fsm.early
    /\ last.fsm.stamp0 # Nothing /\ ~last.fsm.evicted
    /\ \E k \in 1..Len(last.tr) : last.tr[k].op = "call" /\ last.tr[k].eff = "clear"
    /\ storage[last.fsm.key].state = None
    /\ last.fsm.key \notin DOMAIN fsm_timestamps

\* C9: a feed_update that finds state None never clears the record, however
\* long ago the key was last fed: the callbacks work on the stored record,
\* data included.  A feed_update that leaves state None writes no
\* timestamp: the key has none afterwards unless it had one before, which
\* is then unchanged.
C9_ExpiryGatedOnState ==
    KeyedFeed =>
        LET f == last.fsm
            key == last.fsm.key
        IN  /\ f.state0 = None =>
                    /\ ~f.evicted
                    /\ storage[key] = ApplyEffects(last.tr, Record0)
            /\ storage[key].state = None /\ key \in DOMAIN fsm_timestamps =>
                    f.stamp0 = Some(fsm_timestamps[key])

\* a key without state whose data bag holds a field is fed more than
\* session_timeout after its previous update: the bag is kept and the key
\* has no timestamp
C9_Witness ==
    /\ KeyedFeed /\ session_timeout # Nothing
    /\ last.fsm.state0 = None /\ last.fsm.data0 # EmptyData
    /\ idle # Nothing /\ idle[1] > session_timeout[1]
    /\ storage[last.fsm.key].state = None
    /\ storage[last.fsm.key].data = last.fsm.data0
    /\ last.fsm.key \notin DOMAIN fsm_timestamps

(***************************************************************************)
(* Claims about Router.include_router.                                     *)
(***************************************************************************)
\* C11: include_router(child) raises RuntimeError exactly when child has a
\* parent already, and then the call leaves every parent link and every
\* child list as it was.
C11_FailedIncludeChangesNothing ==
    [][last'.op = "include_router" =>
            /\ last'.out = Raise(RuntimeError) <=> parent_router[last'.arg[1]] # None
            /\ last'.out = Raise(RuntimeError) =>
                    /\ parent_router' = parent_router
                    /\ sub_routers' = sub_routers]_vars

\* r1 is a child of r2; dp.include_router(r1) raised: r1 still has r2 as its
\* parent, is once in r2's child list and not in dp's
C11_Witness ==
    /\ last.op = "include_router" /\ last.r = Dispatcher /\ last.arg = <<"r1">>
    /\ last.out = Raise(RuntimeError)
    /\ parent_router["r1"] = "r2"
    /\ sub_routers["r2"] = <<"r1">>
    /\ sub_routers[Dispatcher] = <<>>

(***************************************************************************)
(* Claims about middlewares.                                               *)
(***************************************************************************)
ShortKinds == {"short", "short_none", "short_unhandled"}
Subtree(r) == {r} \cup Descendants(r)
IsEnter(e, r, j) == e.op = "enter" /\ e.r = r /\ e.i = j
IsExit(e, r, j) == e.op = "exit" /\ e.r = r /\ e.i = j
\* where the router that follows r's subtree stands in the pre-order
AfterSubtree(order, r) == Position(order, r) + Cardinality(Subtree(r))

\* C12: when a middleware of router R returns without calling on, nothing of
\* R or of R's descendants is evaluated afterwards except the return
\* through R's outer middlewares, and R.propagate_event returns the
\* middleware's value.  A value other than UNHANDLED, None included, ends
\* the whole propagation with that value: no later router is entered.
\* UNHANDLED lets the propagation go on with the router that follows R's
\* subtree.
C12_ShortCircuit ==
    last.op = "propagate_event" =>
        LET tr == last.tr
            n == Len(tr)
            order == PreOrder(last.r)
        IN  \A k \in 1..n :
                tr[k].op = "enter" /\ tr[k].res \in ShortKinds =>
                    LET R == tr[k].r
                        v == ShortValue(tr[k].res)
                    IN  /\ \A l \in (k + 1)..n :
                                tr[l].r \in Subtree(R) =>
                                    tr[l].op = "exit" /\ tr[l].r = R /\ tr[l].i < tr[k].i
                        /\ R = last.r => last.out = Return(v)
                        /\ v # UNHANDLED =>
                                /\ last.out = Return(v)
                                /\ \A l \in (k + 1)..n : tr[l].op = "exit"
                        /\ v = UNHANDLED /\ AfterSubtree(order, R) <= Len(order) =>
                                \E l \in (k + 1)..n :
                                    /\ tr[l].op = "propagate"
                                    /\ tr[l].r = order[AfterSubtree(order, R)]

\* the middleware of r1 returns None without calling on: the handler of r1
\* is not probed, r1's sibling r2 is not entered, the call returns None
C12_Witness ==
    /\ last.op = "propagate_event" /\ last.r = Dispatcher
    /\ sub_routers[Dispatcher] = <<"r1", "r2">>
    /\ middlewares["r1"]["message"] = <<"user">>
    /\ handlers["r1"]["message"] = 1 /\ handlers["r2"]["message"] = 1
    /\ last.tr[Len(last.tr)].op = "enter" /\ last.tr[Len(last.tr)].r = "r1"
    /\ last.tr[Len(last.tr)].res = "short_none"
    /\ last.out = Return(None)

\* C13: the middlewares of an observer are entered in registration order,
\* the first right when the propagation reaches the observer and each next
\* one right after its predecessor called on, each at most once; the
\* observer's handlers are probed only after all of them were entered and
\* before any of them was left; they are left in reverse order, each right
\* after its successor was left (or returned early or raised), the first
\* one last.
C13_ChainOrder ==
    last.op \in {"propagate_event", "propagate"} =>
        LET tr == last.tr
            n == Len(tr)
            cat == last.arg[1]
            chain(r) == Len(middlewares[r][cat])
        IN  /\ \A k \in 1..n :
                    tr[k].op = "enter" =>
                        /\ tr[k].i \in 1..chain(tr[k].r)
                        /\ \A l \in 1..n : l # k => ~IsEnter(tr[l], tr[k].r, tr[k].i)
                        /\ IF tr[k].i = 1
                           THEN IF last.op = "propagate" THEN k = 1
                                ELSE k > 1 /\ tr[k - 1].op = "propagate"
                                           /\ tr[k - 1].r = tr[k].r
                           ELSE /\ k > 1 /\ IsEnter(tr[k - 1], tr[k].r, tr[k].i - 1)
                                /\ tr[k - 1].res = "next"
                        /\ tr[k].res = "next" =>
                                \E x \in (k + 1)..n : IsExit(tr[x], tr[k].r, tr[k].i)
            /\ \A x \in 1..n :
                    tr[x].op = "exit" =>
                        /\ \E k \in 1..(x - 1) :
                                /\ IsEnter(tr[k], tr[x].r, tr[x].i) /\ tr[k].res = "next"
                                /\ \A l \in k..x : tr[l].r \in Subtree(tr[x].r)
                        /\ \A l \in 1..n : l # x => ~IsExit(tr[l], tr[x].r, tr[x].i)
                        /\ IF tr[x].i < chain(tr[x].r)
                           THEN \/ IsExit(tr[x - 1], tr[x].r, tr[x].i + 1)
                                \/ /\ IsEnter(tr[x - 1], tr[x].r, tr[x].i + 1)
                                   /\ tr[x - 1].res # "next"
                           ELSE \/ IsEnter(tr[x - 1], tr[x].r, tr[x].i)
                                \/ /\ tr[x - 1].op \notin {"enter", "exit"}
                                   \/ tr[x - 1].r # tr[x].r
            /\ \A l \in 1..n :
                    IsProbe(tr[l]) =>
                        \A j \in 1..chain(tr[l].r) :
                            /\ \E k \in 1..(l - 1) : IsEnter(tr[k], tr[l].r, j)
                            /\ \A x \in 1..(l - 1) : ~IsExit(tr[x], tr[l].r, j)

\* two middlewares on the dispatcher's observer: both are entered, the
\* handler returns, the second middleware is left before the first
C13_Witness ==
    /\ last.op = "propagate_event" /\ last.r = Dispatcher
    /\ Len(middlewares[Dispatcher]["message"]) = 2
    /\ Len(last.tr) = 7
    /\ IsEnter(last.tr[2], Dispatcher, 1) /\ IsEnter(last.tr[3], Dispatcher, 2)
    /\ last.tr[5].op = "call" /\ last.tr[5].res = "A"
    /\ IsExit(last.tr[6], Dispatcher, 2) /\ IsExit(last.tr[7], Dispatcher, 1)
    /\ last.out = Return("A")

\* C14: the middleware chain of router R is entered in full before a filter
\* or callback of R or of a descendant of R is evaluated.  A middleware of
\* a sub-router S is entered only after the propagation reached S, and
\* while it is entered only handlers of S and of S's descendants are
\* probed: never one of S's parent or of a sibling.
C14_ScopeFollowsTree ==
    last.op = "propagate_event" =>
        LET tr == last.tr
            n == Len(tr)
            cat == last.arg[1]
        IN  /\ \A p \in 1..n :
                    tr[p].op = "propagate" =>
                        \A l \in (p + 1)..n :
                            IsProbe(tr[l]) /\ tr[l].r \in Subtree(tr[p].r) =>
                                \A j \in 1..Len(middlewares[tr[p].r][cat]) :
                                    /\ \E e \in (p + 1)..(l - 1) :
                                            IsEnter(tr[e], tr[p].r, j) /\ tr[e].res = "next"
                                    /\ \A x \in (p + 1)..(l - 1) : ~IsExit(tr[x], tr[p].r, j)
            /\ \A e \in 1..n :
                    tr[e].op = "enter" =>
                        /\ \E p \in 1..(e - 1) :
                                /\ tr[p].op = "propagate" /\ tr[p].r = tr[e].r
                                /\ \A x \in (p + 1)..(e - 1) : tr[x].op = "enter" /\ tr[x].r = tr[e].r
                        /\ \A l \in (e + 1)..n :
                                IsProbe(tr[l]) /\ tr[l].r \notin Subtree(tr[e].r) =>
                                    \/ tr[e].res # "next"
                                    \/ \E x \in (e + 1)..(l - 1) : IsExit(tr[x], tr[e].r, tr[e].i)

\* the dispatcher and its first child r1 have a middleware each: the
\* dispatcher's is entered before its own filter, r1's only after r1 is
\* reached, and r1's is left before the handler of the sibling r2 is probed
C14_Witness ==
    /\ last.op = "propagate_event" /\ last.r = Dispatcher
    /\ sub_routers[Dispatcher] = <<"r1", "r2">>
    /\ middlewares[Dispatcher]["message"] = <<"user">>
    /\ middlewares["r1"]["message"] = <<"user">>
    /\ \E a, b, c, d \in 1..Len(last.tr) :
            /\ a < b /\ b < c /\ c < d
            /\ IsEnter(last.tr[a], "r1", 1)
            /\ last.tr[b].op = "filter" /\ last.tr[b].r = "r1"
            /\ IsExit(last.tr[c], "r1", 1)
            /\ last.tr[d].op = "call" /\ last.tr[d].r = "r2"
    /\ last.tr[Len(last.tr)].op = "exit" /\ last.tr[Len(last.tr)].r = Dispatcher
    /\ last.out = Return("A")

(***************************************************************************)
(* Claims about HandlerObject.check, the filter combinators and            *)
(* HandlerObject.call.                                                     *)
(***************************************************************************)
\* what filter j of the list returns when check gets to it
Returned(filters, kwargs, j) ==
    Resolve(filters[j], CheckFrom(SubSeq(filters, 1, j - 1), 1, kwargs).kwargs)

\* C15: check evaluates the filters in registration order; the handler
\* matches iff every filter returns a mapping or a truthy value; the first
\* falsy non-mapping value (False, None, 0, the empty string) ends the check
\* as a no-match with no later filter evaluated; a handler without filters
\* matches with the kwargs unchanged.
C15_FirstFalsyEndsCheck ==
    last.op = "check" =>
        LET filters == last.arg[1]
            kwargs == last.arg[2]
            Falsy == {"False", "None", "Falsy"}
            Stops == {j \in 1..Len(filters) :
                        /\ Returned(filters, kwargs, j).kind \in Falsy \cup {"Raise"}
                        /\ \A l \in 1..(j - 1) :
                                Returned(filters, kwargs, l).kind \notin Falsy \cup {"Raise"}}
        IN  /\ filters = <<>> => last.out.res = "match" /\ last.out.kwargs = kwargs
            /\ Stops = {} => last.out.res = "match" /\ last.out.n = Len(filters)
            /\ \A j \in Stops :
                    Returned(filters, kwargs, j).kind \in Falsy =>
                        last.out.res = "nomatch" /\ last.out.n = j

\* the kwargs after check merged what the filter of event e returned
Merged(e) == [e.kwargs EXCEPT !.inj = DictUpdate(@, e.eff)]

\* C16: the entries of a mapping returned by a filter of handler H are in
\* the kwargs of the later filters of H and of H's callback, and nowhere
\* else: every handler of the observer is checked from the kwargs trigger
\* was called with, also after an earlier handler did not match or raised
\* SkipHandler.
C16_EntriesStayInHandler ==
    last.op = "trigger" /\ Len(last.arg) = 2 =>
        LET tr == last.tr
            kwargs == last.arg[2]
        IN  \A k \in 1..Len(tr) :
                /\ tr[k].op = "filter" /\ tr[k].j = 1 => tr[k].kwargs = kwargs
                /\ tr[k].op = "filter" /\ tr[k].j > 1 =>
                        /\ tr[k - 1].op = "filter" /\ SameHandler(tr[k - 1], tr[k])
                        /\ tr[k - 1].j = tr[k].j - 1
                        /\ tr[k].kwargs = Merged(tr[k - 1])
                /\ tr[k].op = "call" =>
                        IF k > 1 /\ tr[k - 1].op = "filter" /\ SameHandler(tr[k - 1], tr[k])
                        THEN tr[k].kwargs = Merged(tr[k - 1])
                        ELSE tr[k].kwargs = kwargs

\* trigger is called with x = 0; the first handler's filter returns {x: 1},
\* its second filter and its callback get x = 1, the callback raises
\* SkipHandler; the second handler's filter and callback get x = 0
C16_Witness ==
    /\ last.op = "trigger" /\ Len(last.arg) = 2
    /\ last.arg[2] = Kwargs(None, {<<"x", 0>>})
    /\ Len(last.tr) = 5
    /\ last.tr[1].op = "filter" /\ last.tr[1].i = 1 /\ last.tr[1].eff = {<<"x", 1>>}
    /\ last.tr[2].op = "filter" /\ last.tr[2].i = 1 /\ last.tr[2].kwargs.inj = {<<"x", 1>>}
    /\ last.tr[3].op = "call" /\ last.tr[3].res = SkipHandler
    /\ last.tr[3].kwargs.inj = {<<"x", 1>>}
    /\ last.tr[4].op = "filter" /\ last.tr[4].i = 2 /\ last.tr[4].res = "True"
    /\ last.tr[4].kwargs.inj = {<<"x", 0>>}
    /\ last.tr[5].op = "call" /\ last.tr[5].i = 2 /\ last.tr[5].kwargs.inj = {<<"x", 0>>}
    /\ last.out = Return("A")

\* C17: a handler guarded by (f1 & f2) behaves like a handler with the
\* filters [f1, f2]: it matches in the same cases, and on a match the
\* entries of the mappings f1 and f2 returned are in the kwargs of the
\* callback.
C17_AndLikeList ==
    last.op = "check" /\ Len(last.arg[1]) = 1 /\ last.arg[1][1].kind = "And" =>
        LET list == HandlerCheck(last.arg[1][1].args, last.arg[2])
        IN  /\ last.out.res = list.res
            /\ list.res = "match" => last.out.kwargs = list.kwargs

\* C18: a handler guarded by f & f, or by ~~f, matches exactly when a
\* handler guarded by f alone matches.
C18_SelfAndDoubleNot ==
    last.op = "check" /\ Len(last.arg[1]) = 1 =>
        LET g == last.arg[1][1]
            kwargs == last.arg[2]
        IN  /\ g.kind = "And" /\ g.args[1] = g.args[2] =>
                    last.out.res = HandlerCheck(<<g.args[1]>>, kwargs).res
            /\ g.kind = "Not" /\ g.args[1].kind = "Not" =>
                    last.out.res = HandlerCheck(<<g.args[1].args[1]>>, kwargs).res

\* C19: call passes the callback exactly the kwargs in flight whose names
\* the callback declares as parameters; a callback declaring **kwargs gets
\* all of them, and no other callback gets a keyword it did not declare.
C19_CallPassesDeclared ==
    last.op = "call" =>
        LET sig == last.arg[1]
            kwargs == InFlight(last.arg[2])
            declared == {sig[p].name : p \in {q \in DOMAIN sig : sig[q].kind # VAR_KEYWORD}}
        IN  IF \E p \in DOMAIN sig : sig[p].kind = VAR_KEYWORD
            THEN last.out = kwargs
            ELSE /\ \A e \in last.out : e[1] \in declared
                 /\ \A e \in kwargs : e[1] \in declared => e \in last.out
                 /\ last.out \subseteq kwargs

\* a callback (event, x) called while x, y and current_state are in flight
\* gets x only; a callback (event, x, **kwargs) gets the three
C19_Witness ==
    /\ last.op = "call"
    /\ last.arg[2].inj = {<<"x", 0>>, <<"y", 1>>}
    /\ Len(last.arg[1]) >= 2 /\ last.arg[1][2].name = "x"
    /\ \/ Len(last.arg[1]) = 2 /\ last.out = {<<"x", 0>>}
       \/ /\ Len(last.arg[1]) = 3 /\ last.arg[1][3].kind = VAR_KEYWORD
          /\ Cardinality(last.out) = 3

(***************************************************************************)
(* Claims about FSMContext and MemoryStorage.                              *)
(***************************************************************************)
\* the canonical string of what set_state was given: "Group:name" for a
\* State, the string itself for a string
Canonical(s) ==
    CASE s = StateObject("Form", "age") -> "Form:age"
      [] s = StateObject("", "") -> ":"
      [] s = StateString(FormName) -> "Form:name"
      [] OTHER -> None

\* the last call was op on the context of the key the call before it was on
Follows(op, before) ==
    /\ last.op = op /\ last.tr # <<>>
    /\ last.tr[1].op = before /\ last.tr[1].arg[1] = last.arg[1]

\* C20: get_state() after set_state(S) on the same key returns S's
\* canonical string; after clear() get_state() returns None and get_data()
\* returns {}, which is what they return for a key that was never touched.
C20_RoundTripAndClear ==
    /\ Follows("get_state", "set_state") => last.out = Canonical(last.tr[1].arg[2])
    /\ Follows("get_state", "clear") => last.out = None
    /\ Follows("get_data", "clear") => last.out = EmptyData
    /\ last.op = "get_state" /\ ~last.fsm.known => last.out = None
    /\ last.op = "get_data" /\ ~last.fsm.known => last.out = EmptyData
    /\ last.op = "clear" => storage[last.arg[1]] = StorageRecord

\* clear() on a record with a state and data, then get_data() returns {}
C20_Witness ==
    /\ Follows("get_data", "clear")
    /\ last.tr[1].fsm.state0 = "Form:age" /\ last.tr[1].fsm.data0 # EmptyData
    /\ last.out = EmptyData
    /\ \E key \in DOMAIN storage : storage[key].state = ":"

(***************************************************************************)
(* Claims about the data bag.                                              *)
(***************************************************************************)
\* what get_data() returns for the key: the entries of the stored dict
StoredData(store, objs, key) ==
    IF key \in DOMAIN store THEN objs.dicts[store[key].data] ELSE EmptyData

\* C21: the stored data bag of a key changes only through set_data,
\* update_data or clear: a change the application makes to a mapping that
\* get_data() or update_data() returned, or that it passed to set_data(),
\* never changes what a later get_data() returns.
C21_DataChangesOnlyThroughStorage ==
    [][last'.op \notin {"set_data", "update_data", "clear"} =>
            StoredData(storage', objects', DataKey) = StoredData(storage, objects, DataKey)]_vars

\* the application changes the dict get_data() just returned or the dict it
\* just passed to set_data(); the stored bag is another one
C21_Witness ==
    /\ last.op = "mutate" /\ last.tr # <<>>
    /\ \/ last.tr[1].op \in {"get_data", "update_data"} /\ last.tr[1].out = last.arg[2]
       \/ last.tr[1].op = "set_data" /\ last.tr[1].arg[2] = last.arg[2]
    /\ StoredData(storage, objects, DataKey) # EmptyData
    /\ StoredData(storage, objects, DataKey) # objects.dicts[last.arg[2]]

\* C22: in every storage backend, writing state or data under one key never
\* changes the state or data read under any other key, also one that
\* differs only in destiny.
C22_KeysIndependent ==
    [][\A key \in BackendKeys :
            last'.op \in {"set_state", "set_data"} /\ last'.arg[1] # key =>
                /\ BackendGetState(storage', key) = BackendGetState(storage, key)
                /\ BackendGetData(storage', key) = BackendGetData(storage, key)]_vars

\* the fields written by a sequence of kwargs, each with the value of the
\* last one that wrote it
Written(log) ==
    [f \in UNION {DOMAIN log[i] : i \in DOMAIN log} |->
        LET latest == CHOOSE i \in DOMAIN log :
                        /\ f \in DOMAIN log[i]
                        /\ \A j \in DOMAIN log : f \in DOMAIN log[j] => j <= i
        IN  log[latest][f]]

\* C23: after a sequence of update_data calls on a key, get_data() returns
\* the union of all fields written, a later value replacing an earlier one
\* of the same name, and each update_data call returns the merged mapping
\* it stored.
C23_UpdatesAccumulate ==
    /\ last.op = "get_data" /\ last.tr # <<>> => last.out = Written(last.tr)
    /\ last.op = "update_data" /\ last.tr # <<>> =>
            /\ last.out = Written(last.tr)
            /\ storage[last.arg[1]].data = last.out

\* update_data(a=1), update_data(b=2), then get_data() returns {a: 1, b: 2}
C23_Witness ==
    /\ last.op = "get_data"
    /\ last.tr = <<[f \in {"a"} |-> 1], [f \in {"b"} |-> 2]>>
    /\ last.out = [f \in {"a", "b"} |-> IF f = "a" THEN 1 ELSE 2]

(***************************************************************************)
(* Claims about the FSM strategy.                                          *)
(***************************************************************************)
\* C24: feed_update works on the record whose key the dispatcher's
\* fsm_strategy derives from the event: chat and user under user-in-chat,
\* the chat alone under per-chat, the user alone under per-global-user; so
\* two updates address the same record exactly when the strategy gives
\* them the same key.
C24_KeyFollowsStrategy ==
    last.op = "feed_update" => last.fsm.key = BuildKey(fsm_strategy, last.arg[1])

\* the delays the backoff is said to wait: 2, 4, 8, 16, 32, 60, 60, ...
ClaimedDelay(k) == IF k <= 5 THEN <<2, 4, 8, 16, 32>>[k] ELSE 60

\* C25: in a client's polling loop the k-th consecutive failed poll is
\* followed by a sleep of min(2^k, 60) seconds and the loop goes on polling
\* after it; a poll that succeeds resets the count of failures, so that the
\* next failure waits 2 seconds again.
C25_BackoffDoublesToCap ==
    [][\A b \in Bots :
         LET t == loop.task[b]
             t2 == loop'.task[b]
             step == last'.op = "polling" /\ last'.arg[1] = b
         IN  /\ step /\ last'.arg[3] = "error" =>
                   /\ t2.pc = "sleep"
                   /\ t2.consecutive_errors = t.consecutive_errors + 1
                   /\ t2.delay = ClaimedDelay(t.consecutive_errors + 1)
             /\ step /\ last'.arg[2] = "get_events" /\ last'.arg[3] = "result" =>
                   \/ t2.consecutive_errors = 0
                   \/ t2.pc = "sleep" /\ t2.consecutive_errors = 1 /\ t2.delay = 2
             /\ step /\ last'.arg[2] = "sleep" /\ last'.arg[3] = "result" /\ running =>
                   /\ t2.pc = "get_events"
                   /\ t2.consecutive_errors = t.consecutive_errors]_vars

\* the seventh failure in a row waits 60 seconds, after an earlier poll
\* succeeded
C25_Witness ==
    /\ loop.task["b1"].pc = "sleep"
    /\ loop.task["b1"].consecutive_errors = 7
    /\ loop.task["b1"].delay = 60
    /\ loop.task["b1"].polls > 7

\* the get_events calls started so far: those of the polling tasks and those
\* of skip_updates
PollsStarted(l) == Sum([b \in Bots |-> l.task[b].polls], Bots) + l.skipped

HooksRun(kind) == SelectSeq(loop.hooks, LAMBDA h : h[1] = kind)
HooksOf(kind, cbs) == UNION {{<<kind, r, i>> : i \in 1..cbs[r]} : r \in InTree}
Times(seq, x) == Cardinality({k \in 1..Len(seq) : seq[k] = x})

\* C27: whenever start_polling has returned, whether the polling tasks
\* ended by themselves, by stop(), by a signal or by the cancellation of
\* start_polling, the dispatcher is stopped (is_running is False), every
\* shutdown callback of the router tree has run exactly once and nothing
\* else has, and the bots closed are all the bots polled when
\* close_bot_on_stop is true and none when it is false.
C27_CompletionStopsAndCleansUp ==
    loop.phase = "returned" =>
        /\ ~running
        /\ \A h \in HooksOf("shutdown", loop.on_shutdown) : Times(HooksRun("shutdown"), h) = 1
        /\ Len(HooksRun("shutdown")) = Cardinality(HooksOf("shutdown", loop.on_shutdown))
        /\ loop.closed = IF loop.close_bot_on_stop
                         THEN {loop.bots[i] : i \in 1..Len(loop.bots)}
                         ELSE {}

\* start_polling was cancelled while two bots were polled by a dispatcher
\* with shutdown callbacks on two routers, and returned without closing
\* the bots
C27_Witness ==
    /\ loop.phase = "returned"
    /\ loop.cancelled
    /\ ~loop.stopped
    /\ Len(loop.bots) = 2
    /\ ~loop.close_bot_on_stop
    /\ Len(HooksRun("shutdown")) = 2
    /\ \E r \in Routers \ {Dispatcher} : loop.on_shutdown[r] = 1

\* in a log of lifecycle callbacks, a comes before b only if the one walk
\* of the tree that starts at the root, runs a router's own callbacks in
\* registration order and then goes through its sub-routers in
\* registration order, subtree by subtree, calls a before b
RootFirstDepthFirst(log) ==
    \A p \in 1..Len(log), q \in 1..Len(log) :
        p < q =>
            LET a == log[p]
                b == log[q]
            IN  /\ a # b
                /\ a[2] = b[2] => a[3] < b[3]
                /\ a[2] \notin Descendants(b[2])
                /\ \A r \in Routers : \A j \in 1..Len(sub_routers[r]), k \in 1..Len(sub_routers[r]) :
                      j < k => ~(/\ a[2] \in Subtree(sub_routers[r][k])
                                 /\ b[2] \in Subtree(sub_routers[r][j]))

\* C28: the startup callbacks and the shutdown callbacks of the router tree
\* run root-first and depth-first, a router's own callbacks in registration
\* order before its sub-routers' subtrees in registration order, none twice;
\* every startup callback has run before the first get_events call is
\* started; no shutdown callback is begun before every polling task has
\* ended; and when start_polling has returned every callback of either kind
\* has run exactly once.
C28_HooksOrderedAroundPolling ==
    /\ RootFirstDepthFirst(HooksRun("startup"))
    /\ RootFirstDepthFirst(HooksRun("shutdown"))
    /\ PollsStarted(loop) > 0 =>
          \A h \in HooksOf("startup", loop.on_startup) : Times(HooksRun("startup"), h) = 1
    /\ loop.phase = "shutdown" \/ HooksRun("shutdown") # <<>> => Live(loop) = {}
    /\ loop.phase = "returned" =>
          /\ \A h \in HooksOf("startup", loop.on_startup) : Times(HooksRun("startup"), h) = 1
          /\ \A h \in HooksOf("shutdown", loop.on_shutdown) : Times(HooksRun("shutdown"), h) = 1

\* two bots were polled and stopped around a chain of the dispatcher, a
\* sub-router and that router's sub-router, each with a startup callback,
\* and two of them with a shutdown callback
C28_Witness ==
    /\ loop.phase = "returned"
    /\ loop.stopped_in = "gather"
    /\ Len(loop.bots) = 2
    /\ \E r \in Routers \ {Dispatcher} :
          sub_routers[Dispatcher] = <<r>> /\ sub_routers[r] # <<>>
    /\ \A r \in Routers : loop.on_startup[r] = 1
    /\ Len(HooksRun("startup")) = 3
    /\ Len(HooksRun("shutdown")) = 2
    /\ loop.skipped = 0
    /\ PollsStarted(loop) = 2

\* C29: when the polling task of a client is cancelled while it awaits in
\* feed_update, CancelledError leaves feed_update (which so returns
\* nothing, UNHANDLED included); the callback that was awaiting is the last
\* thing of the update that ran, so no error handler runs for the
\* cancellation, and no event is dispatched with the cancellation as its
\* event; the task ends without an error counted, a delay computed or
\* another get_events call.
C29_CancellationNotSwallowed ==
    [][last'.op = "feed" /\ last'.arg[3] =>
          LET b == last'.arg[1]
              tr == last'.tr
          IN  /\ last'.out = Raise(CancelledError)
              /\ \A k \in 1..Len(tr) :
                    /\ tr[k].ev # CancelledError
                    /\ tr[k].op = "call" /\ tr[k].res = CancelledError => k = Len(tr)
              /\ loop'.task[b].pc = "done"
              /\ loop'.task[b].consecutive_errors = loop.task[b].consecutive_errors
              /\ loop'.task[b].delay = loop.task[b].delay
              /\ loop'.task[b].polls = loop.task[b].polls]_vars

\* under an ErrorsMiddleware and with an error handler registered, the
\* message handler of an update was awaiting when the task was cancelled
C29_Witness ==
    /\ last.op = "feed"
    /\ last.arg[3]
    /\ Configured
    /\ last.tr # <<>>
    /\ last.tr[Len(last.tr)].op = "call"
    /\ last.tr[Len(last.tr)].cat = "message"
    /\ last.tr[Len(last.tr)].res = CancelledError
    /\ loop.task[last.arg[1]].pc = "done"
    /\ loop.stopped

\* how many updates of the batch of client b have entered feed_update and
\* not left it: those that entered less those no longer pending
Underway(l, b) ==
    IF l.task[b].pc = "feed_update"
    THEN Len(l.task[b].fed) - (Len(l.task[b].batch) - Len(l.task[b].pending))
    ELSE 0

\* update N+1 of a batch of client b enters feed_update in this step
Enters(b) ==
    /\ loop'.task[b].fed # loop.task[b].fed
    /\ Len(loop'.task[b].fed) > 1

\* the update of client b in flight leaves feed_update in this step by
\* returning
Returns(b) ==
    /\ loop.task[b].pc = "feed_update"
    /\ last'.op = "feed"
    /\ last'.arg[1] = b
    /\ last'.arg[2] = loop.task[b].fed[Len(loop.task[b].fed)]
    /\ last'.out.kind = "return"

Stalled(l, c) ==
    /\ l.task[c].pc \in {"get_events", "sleep", "feed_update"}
    /\ ~Queued(l, Wake(c))

\* the step the event loop runs next is one of the poll loop of client b
StepOf(b) ==
    \/ \E updates \in FeedingBatches : PollingStep(b, updates, MaxRetries, MaxRounds)
    \/ FeedStep(b, FeedingB, MaxRetries, MaxRounds)

\* C31: every bot given to start_polling has a polling task of its own once
\* start_polling awaits gather; a step of the loop of one client changes
\* nothing of the loop of another; and while the loop of client c is
\* stalled (in a long poll, in the backoff sleep or in a handler), a step
\* of the loop of client b that the event loop has next can be taken (b
\* within the rounds the model follows).
C31_PollLoopsIndependent ==
    [][\A b \in Bots : \A c \in Bots \ {b} :
          /\ loop'.phase = "gather" /\ loop'.outer = "pending" /\ loop.phase # "gather" =>
                \A i \in 1..Len(loop'.bots) : loop'.task[loop'.bots[i]].pc = "new"
          /\ last'.op \in {"polling", "feed"} /\ last'.arg[1] = b =>
                loop'.task[c] = loop.task[c]
          /\ Stalled(loop, c) /\ Next1(Wake(b)) /\ loop.task[b].polls < MaxRounds =>
                ENABLED StepOf(b)]_vars

\* the first bot is still in the handler of the first update of its first
\* batch, and nothing has arrived for it, while the second bot has had the
\* two updates of a batch dispatched and polls again
C31_Witness ==
    /\ Stalled(loop, "b1")
    /\ loop.task["b1"].pc = "feed_update"
    /\ loop.task["b1"].polls = 1
    /\ loop.task["b1"].fed = <<FirstUpdate>>
    /\ loop.task["b2"].pc = "get_events"
    /\ loop.task["b2"].polls = 2
    /\ loop.task["b2"].fed = <<FirstUpdate, SecondUpdate>>
    /\ last.op = "feed"
    /\ last.arg[1] = "b2"
    /\ last.tr # <<>>

\* where in a trace router r was entered with an "error" event
ErrorEntries(tr, r) ==
    {k \in 1..Len(tr) : tr[k].op = "propagate" /\ tr[k].r = r /\ tr[k].cat = "error"}

\* the call the ErrorsMiddleware of router r wraps, when it is the only
\* middleware of r's "message" observer, ran the events tr and ended as out
WrappedCallRan(r, tr, out) ==
    \E x \in Inner(r, "message", "update", Kwargs(None, {}), DispatchB) :
        x.tr = tr /\ x.out = out

\* C32: router r has ErrorsMiddleware on its "message" observer and no
\* middleware on the "error" observers below it.  When the wrapped call
\* returns, nothing is dispatched as an error and the call returns the
\* same.  When an exception E (neither SkipHandler nor CancelHandler)
\* escapes the wrapped call, r is entered once with E as an "error" event
\* and the kwargs of the call, and only handlers of r's subtree see it; an
\* error handler that returns value v makes v the result of the call; when
\* no error handler returns or raises and no filter of one raises (the
\* propagation yields UNHANDLED), the call raises E.
C32_ErrorsMiddlewareContract ==
    /\ last.op = "propagate_event"
    /\ last.arg = <<"message">>
    /\ middlewares[last.r]["message"] = <<"errors">>
    /\ \A d \in Subtree(last.r) : middlewares[d]["error"] = <<>>
    => LET r == last.r
           tr == last.tr
           n == Len(tr)
           P == ErrorEntries(tr, r)
       IN  /\ Cardinality(P) <= 1
           /\ P = {} =>
                 /\ last.out.kind = "return"
                 /\ WrappedCallRan(r, Tail(tr), last.out)
           /\ \A k \in P :
                 LET E == tr[k].ev
                 IN  /\ WrappedCallRan(r, SubSeq(tr, 2, k - 1), Raise(E))
                     /\ E \notin {SkipHandler, CancelHandler}
                     /\ tr[k].kwargs = tr[1].kwargs
                     /\ \A l \in k..n :
                           /\ tr[l].cat = "error"
                           /\ tr[l].ev = E
                           /\ tr[l].r \in Subtree(r)
                     /\ tr[n].op = "call" /\ tr[n].res \notin {SkipHandler, CancelHandler, "Error"} =>
                           last.out = Return(tr[n].res)
                     /\ (\A l \in k..n :
                            /\ tr[l].op = "call" => tr[l].res \in {SkipHandler, CancelHandler}
                            /\ tr[l].op = "filter" => tr[l].res # "Raise")
                        => last.out = Raise(E)

\* a message handler of a sub-router raised; the dispatcher's
\* ErrorsMiddleware had the error dispatched and an error handler returned
\* "A", which propagate_event returned
C32_Witness ==
    /\ last.op = "propagate_event"
    /\ last.r = Dispatcher
    /\ last.arg = <<"message">>
    /\ middlewares[Dispatcher]["message"] = <<"errors">>
    /\ ErrorEntries(last.tr, Dispatcher) # {}
    /\ Raised(last.tr, "r1", "message", 1, "Error")
    /\ last.tr[Len(last.tr)].op = "call"
    /\ last.tr[Len(last.tr)].cat = "error"
    /\ last.tr[Len(last.tr)].res = "A"
    /\ last.out = Return("A")

(***************************************************************************)
(* CallbackDataFactory: class ProductCB(CallbackDataFactory,               *)
(* prefix="p"): action: str; id: int.  A string is a sequence of           *)
(* characters.                                                             *)
(***************************************************************************)
MaxStr == 2
MaxData == 5
MaxId == 11

Sep == ":"
Prefix == <<"p">>
Digit == <<"0", "1", "2", "3", "4", "5", "6", "7", "8", "9">>
Chars == {"p", "a", "1", Sep}

StringsOver(alphabet, n) == UNION {[1..k -> alphabet] : k \in 0..n}

\* the records ProductCB(action=..., id=...) of the model
ProductCBs == [action : StringsOver({"a", Sep}, MaxStr), id : {0, 1, MaxId - 1, MaxId}]

RECURSIVE IntStr(_)
\* str(n) of an int n >= 0
IntStr(n) == IF n < 10 THEN <<Digit[n + 1]>> ELSE IntStr(n \div 10) \o <<Digit[(n % 10) + 1]>>

DigitValue(c) == CHOOSE d \in 0..9 : Digit[d + 1] = c
IsDigit(c) == \E d \in 0..9 : Digit[d + 1] = c

RECURSIVE ParseInt(_)
\* the int of a string of decimal digits
ParseInt(s) ==
    IF s = <<>> THEN 0
    ELSE 10 * ParseInt(SubSeq(s, 1, Len(s) - 1)) + DigitValue(s[Len(s)])

RECURSIVE Join(_, _)
\* sep.join(parts)
Join(parts, sep) ==
    IF parts = <<>> THEN <<>>
    ELSE IF Len(parts) = 1 THEN parts[1]
    ELSE parts[1] \o <<sep>> \o Join(Tail(parts), sep)

RECURSIVE Split(_, _)
\* data.split(sep)
Split(data, sep) ==
    IF \A i \in 1..Len(data) : data[i] # sep THEN <<data>>
    ELSE LET i == CHOOSE i \in 1..Len(data) :
                      data[i] = sep /\ \A j \in 1..(i - 1) : data[j] # sep
         IN  <<SubSeq(data, 1, i - 1)>> \o Split(SubSeq(data, i + 1, Len(data)), sep)

ValueError(what) == [kind |-> "ValueError", what |-> what]
Record(action, id) == [kind |-> "record", action |-> action, id |-> id]

\* CallbackDataFactory.pack
Pack(r) == Join(<<Prefix, r.action, IntStr(r.id)>>, Sep)

\* cls(**dict(zip(field_names, values))): pydantic validates action: str
\* and id: int from the two strings
Validated(values) ==
    IF values[2] # <<>> /\ \A i \in 1..Len(values[2]) : IsDigit(values[2][i])
    THEN Record(values[1], ParseInt(values[2]))
    ELSE ValueError("validation")

\* CallbackDataFactory.unpack
Unpack(data) ==
    LET parts == Split(data, Sep)
        values == Tail(parts)
    IN  IF parts[1] # Prefix THEN ValueError("Invalid prefix")
        ELSE IF Len(values) # 2 THEN ValueError("expected 2 values")
        ELSE Validated(values)

CallbackDataDoes(op, arg, out) ==
    /\ last' = [NoCall EXCEPT !.op = op, !.arg = arg, !.out = out]
    /\ UNCHANGED <<coreVars, sideVars>>

\* a button is made: callback_data=ProductCB(action=..., id=...).pack()
PackStep(r) ==
    /\ r \in ProductCBs
    /\ CallbackDataDoes("pack", <<r>>, Pack(r))

\* the button is pressed: ProductCB.unpack(query.callback_data)
UnpackPacked ==
    /\ last.op = "pack"
    /\ CallbackDataDoes("unpack", <<last.out, last.arg[1]>>, Unpack(last.out))

\* ProductCB.unpack of any string
UnpackStep(data) ==
    /\ Len(data) <= MaxData
    /\ CallbackDataDoes("unpack", <<data>>, Unpack(data))

NextCallbackData ==
    \/ \E r \in ProductCBs : PackStep(r)
    \/ UnpackPacked
    \/ \E data \in StringsOver(Chars, MaxData) : UnpackStep(data)

SpecCallbackData == Init /\ [][NextCallbackData]_vars

\* unpack of a string whose first part is not the prefix, or with a number
\* of values other than two, is a ValueError
WrongPrefixOrCountFails ==
    last.op = "unpack" =>
        LET parts == Split(last.arg[1], Sep)
        IN  parts[1] # Prefix \/ Len(parts) # 3 => last.out.kind = "ValueError"

\* C35: unpack(pack(r)) reproduces every field of r, and unpack of a string
\* with another prefix or another number of fields fails with an error.
C35_RoundTrip ==
    /\ last.op = "unpack" /\ Len(last.arg) = 2 =>
            last.out = Record(last.arg[2].action, last.arg[2].id)
    /\ WrongPrefixOrCountFails

(***************************************************************************)
(* Scheduler: interval jobs, one task per job.  A step runs the task from  *)
(* the await it is suspended in to its next await.                         *)
(***************************************************************************)
MaxCalls == 3

\* what `await self.func(bot, ...)` ends in
CallOutcomes == {"return", "Exception", CancelledError}

\* `while is_running():` of _IntervalJob.run, up to `await self._call(...)`
JobWhileRunning(s, j) ==
    IF s.running
    THEN [s EXCEPT !.job[j].pc = "call", !.job[j].calls = @ + 1]
    ELSE [s EXCEPT !.job[j].pc = "done"]

\* the call ended and nothing catches what it raised
AfterCallUncaught(s, j, outcome) ==
    IF outcome = "return" THEN [s EXCEPT !.job[j].pc = "sleep"]
    ELSE [s EXCEPT !.job[j].pc = "failed", !.job[j].failed = @ + 1]

\* `try: await self._call(bot, extra)  except Exception: logger.exception`
\* and on to `await _interruptible_sleep(self.seconds, is_running)`
AfterCall(s, j, outcome) ==
    IF outcome = "return" THEN [s EXCEPT !.job[j].pc = "sleep"]
    ELSE IF IsException(outcome)
    THEN [s EXCEPT !.job[j].pc = "sleep", !.job[j].failed = @ + 1]
    ELSE [s EXCEPT !.job[j].pc = "cancelled"]

\* _IntervalJob.run from the await it is suspended in
JobRun(s, j, outcome) ==
    LET pc == s.job[j].pc
    IN  CASE pc = "new" ->
                IF ~s.job[j].run_at_start THEN [s EXCEPT !.job[j].pc = "sleep"]
                ELSE JobWhileRunning(s, j)
          [] pc = "sleep" -> JobWhileRunning(s, j)
          [] pc = "call" -> AfterCall(s, j, outcome)
          [] OTHER -> s

SchedulerDoes(s, op, arg) ==
    /\ scheduler' = s
    /\ last' = [NoCall EXCEPT !.op = op, !.arg = arg]
    /\ UNCHANGED <<coreVars, listener, writers>>

\* Scheduler.start: a task per registered job
SchedulerStart(run_at_start) ==
    /\ ~scheduler.running
    /\ \A j \in Jobs : scheduler.job[j].pc = "none"
    /\ SchedulerDoes([running |-> TRUE,
                      job |-> [j \in Jobs |-> [pc |-> "new", run_at_start |-> run_at_start[j],
                                               calls |-> 0, failed |-> 0]]],
                     "scheduler_start", <<run_at_start>>)

\* what the task of job j awaits completes
JobStep(j, outcome) ==
    /\ scheduler.job[j].pc \in {"new", "sleep", "call"}
    /\ outcome # "return" => scheduler.job[j].pc = "call"
    /\ scheduler.job[j].pc = "sleep" /\ scheduler.running => scheduler.job[j].calls < MaxCalls
    /\ SchedulerDoes(JobRun(scheduler, j, outcome), "job_step",
                     <<j, scheduler.job[j].pc, outcome>>)

\* Scheduler.stop: the tasks still running are cancelled and awaited
SchedulerStop ==
    /\ scheduler.running
    /\ SchedulerDoes([running |-> FALSE,
                      job |-> [j \in Jobs |->
                                  IF scheduler.job[j].pc \in {"new", "sleep", "call"}
                                  THEN [scheduler.job[j] EXCEPT !.pc = "cancelled"]
                                  ELSE scheduler.job[j]]],
                     "scheduler_stop", <<>>)

NextScheduler ==
    \/ \E run_at_start \in [Jobs -> BOOLEAN] : SchedulerStart(run_at_start)
    \/ \E j \in Jobs, outcome \in CallOutcomes : JobStep(j, outcome)
    \/ SchedulerStop

SpecScheduler == Init /\ [][NextScheduler]_vars

\* The event loop runs every task whose await completed; a sleep ends and a
\* call of the job function ends.  Nothing is assumed of stop().
FairScheduler ==
    SpecScheduler /\ \A j \in Jobs : WF_vars(\E outcome \in CallOutcomes : JobStep(j, outcome))

(***************************************************************************)
(* FSMContext.update_data called by several tasks on one key.  With        *)
(* MemoryStorage get_data and set_data do not suspend and a call is one    *)
(* step; with RedisStorage each of them awaits a Redis command, and a step *)
(* runs the call from one await to the next.                               *)
(***************************************************************************)
\* the field a task writes: the kwargs of the tasks are disjoint
KwargsOf(w) == [f \in {w} |-> 1]

\* data.update(kwargs)
WithKwargs(data, kwargs) ==
    [f \in DOMAIN data \cup DOMAIN kwargs |-> IF f \in DOMAIN kwargs THEN kwargs[f] ELSE data[f]]

\* FSMContext.update_data of task w from where it is
UpdateDataFrom(ws, w) ==
    LET pc == ws.task[w].pc
        read == WithKwargs(ws.data, KwargsOf(w))
    IN  CASE pc = "none" /\ ws.storage = "memory" ->
                [ws EXCEPT !.data = read, !.task[w] = [pc |-> "done", current |-> read]]
          [] pc = "none" /\ ws.storage # "memory" -> [ws EXCEPT !.task[w].pc = "get_data"]
          [] pc = "get_data" -> [ws EXCEPT !.task[w] = [pc |-> "set_data", current |-> read]]
          [] pc = "set_data" -> [ws EXCEPT !.data = ws.task[w].current, !.task[w].pc = "done"]
          [] OTHER -> ws

WritersDo(ws, op, arg) ==
    /\ writers' = ws
    /\ last' = [NoCall EXCEPT !.op = op, !.arg = arg]
    /\ UNCHANGED <<coreVars, listener, scheduler>>

\* Dispatcher(storage=RedisStorage(...)) in place of the default MemoryStorage
WithStorage(kind) ==
    /\ writers = NoWriters
    /\ kind # writers.storage
    /\ WritersDo([writers EXCEPT !.storage = kind], "storage", <<kind>>)

\* task w calls state.update_data(**kwargs), or goes on in its call
UpdateDataStep(w) ==
    /\ writers.task[w].pc # "done"
    /\ WritersDo(UpdateDataFrom(writers, w), "update_data_step", <<w, writers.task[w].pc>>)

NextWriters ==
    \/ WithStorage("redis")
    \/ \E w \in Writers : UpdateDataStep(w)

SpecWriters == Init /\ [][NextWriters]_vars

\* C40: when tasks call update_data with disjoint fields on one key
\* concurrently over a storage whose operations can suspend, the fields of
\* every call that has returned are in the stored data.
C40_NoLostUpdate ==
    \A w \in Writers : writers.task[w].pc = "done" => w \in DOMAIN writers.data

(***************************************************************************)
(* RedisListener: acknowledgment and the retry policy.                     *)
(***************************************************************************)
\* the step taken is the step of task t from pc, the handler ending in outcome
StreamStepped(t, pc, outcome) ==
    /\ last'.op = "stream_step"
    /\ last'.arg = <<t, pc, outcome>>
    /\ TaskOf(listener, t).pc = pc

\* what the step taken acknowledges: after a return the next command of the
\* processing is the XACK of that message, it sends an XACK only for a
\* message whose handler returned, after a raise nothing is acknowledged and
\* the pending entry stays, and the only other acknowledgment is the one of
\* the dead-letter branch
AcksAsProcessed ==
    /\ \A t \in StreamTasks :
            /\ StreamStepped(t, "handler", "return") =>
                    /\ TaskOf(listener', t).pc = "xack"
                    /\ InHand(listener', t) = InHand(listener, t)
                    /\ listener'.acked = listener.acked
            /\ StreamStepped(t, "xack", "return") =>
                    /\ InHand(listener, t) \in listener.returned
                    /\ InHand(listener, t) \in listener'.acked
                    /\ InHand(listener, t) \notin listener'.pel
            /\ StreamStepped(t, "handler", "raise") =>
                    /\ listener'.acked = listener.acked
                    /\ listener'.pel = listener.pel
                    /\ listener'.returned = listener.returned
    /\ \A m \in Messages :
            m \in listener'.acked \ listener.acked =>
                \/ m \in listener.returned
                \/ \E i \in 1..Len(listener.dead) : listener.dead[i] = m

\* no handler call begins for an acknowledged message
NoCallOnceAcked ==
    \A m \in Messages : listener'.calls[m] > listener.calls[m] => m \notin listener.acked

\* C33: a message is acknowledged exactly when its handler returns normally,
\* an acknowledged message is never delivered to the handler again, and a
\* message whose handler raises is not acknowledged and stays pending.
C33_AckedIffHandlerReturned == [][AcksAsProcessed /\ NoCallOnceAcked]_vars

\* C34: a message whose handler raises on every attempt is delivered to the
\* handler at most max_retries times.
C34_AtMostMaxRetriesCalls ==
    \A m \in Messages :
        m \notin listener.returned => listener.calls[m] <= listener.max_retries


(***************************************************************************)
(* Scheduler: a job that raises.                                           *)
(***************************************************************************)
\* the step taken is the end of a call of job j in an Exception
JobRaised(j) ==
    /\ last'.op = "job_step"
    /\ last'.arg = <<j, "call", "Exception">>
    /\ scheduler.job[j].pc = "call"

\* every call of job j so far raised an Exception
RaisedEveryCall(j) ==
    scheduler.job[j].failed =
        scheduler.job[j].calls - (IF scheduler.job[j].pc = "call" THEN 1 ELSE 0)

\* C36: an exception raised by a job stops neither the scheduler nor that
\* job nor another job: the step in which a call raises leaves the scheduler
\* running, the job waiting for its next interval and the other jobs as
\* they were; and while the scheduler is running, a job all of whose calls
\* raised an Exception is called again, unless the call in progress ends
\* in a CancelledError, which is no Exception.
C36_RaisingJobKeepsRunning ==
    /\ [][\A j \in Jobs :
            JobRaised(j) =>
                /\ scheduler'.running = scheduler.running
                /\ scheduler'.job[j].pc = "sleep"
                /\ \A k \in Jobs \ {j} : scheduler'.job[k] = scheduler.job[k]]_vars
    /\ \A j \in Jobs : \A n \in 1..(MaxCalls - 1) :
            (scheduler.running /\ scheduler.job[j].calls = n /\ RaisedEveryCall(j)
                /\ scheduler.job[j].pc \in {"call", "sleep"})
            ~> \/ ~scheduler.running
               \/ scheduler.job[j].pc = "cancelled"
               \/ scheduler.job[j].calls > n

\* the scheduler is running, one job raised on each of its MaxCalls calls
\* and the other job was called after the first one had raised
C36_Witness ==
    \E j \in Jobs : \E k \in Jobs \ {j} :
        /\ scheduler.running
        /\ scheduler.job[j].calls = MaxCalls /\ scheduler.job[j].failed = MaxCalls
        /\ scheduler.job[k].pc = "call" /\ scheduler.job[k].failed = 0


(***************************************************************************)
(* The session timestamps after any feed_update.                           *)
(***************************************************************************)
\* C37: with session timeout, after every feed_update that returned, a key
\* has a timestamp if and only if its stored state is not None.
C37_StampIffState ==
    session_timeout # Nothing =>
        \A key \in DOMAIN storage :
            key \in DOMAIN fsm_timestamps <=> storage[key].state # None


(***************************************************************************)
(* The updates of a batch after a feed_update that raised.                 *)
(***************************************************************************)
\* C38: every update of a received batch is passed to feed_update, in
\* order, also when feed_update raised for an earlier update of the batch:
\* when the poll loop is through with a batch (it polls again or sleeps
\* before the next poll), all of the batch was fed.
C38_WholeBatchFed ==
    \A b \in Bots :
        loop.task[b].pc \in {"get_events", "sleep"} => loop.task[b].fed = loop.task[b].batch


(***************************************************************************)
(* is_running around start_polling.                                        *)
(***************************************************************************)
\* C39: is_running is False whenever start_polling has returned or raised,
\* and True only while a start_polling call is in progress.
C39_RunningOnlyInProgress ==
    /\ loop.phase \in {"returned", "raised"} => ~running
    /\ running /\ loop # NoLoop => loop.phase \in InProgress


====
